---- MODULE Spec2Model ----
(***************************************************************************)
(* Address resolution, verified-coordinate ledger and write buffering of   *)
(* the trucking tasks processor (services/database_client.py and the UI    *)
(* handlers that drive it).                                                *)
(*                                                                         *)
(* Strings that the code only compares for equality (raw input addresses)  *)
(* are opaque values.  Formatted addresses are sequences of one-character  *)
(* strings, so that cleaning and upper-casing are computed as the code     *)
(* computes them.  Coordinates are whole numbers of units of 2.5e-8        *)
(* degrees, so 1e-7 degrees is 4 units; float rounding noise is not        *)
(* modelled.                                                               *)
(***************************************************************************)
EXTENDS Integers, Sequences, FiniteSets, TLC

VARIABLES
    address_buffer,         \* DatabaseClient.address_buffer
    order_buffer,           \* DatabaseClient.order_buffer
    coordinates_buffer,     \* DatabaseClient.coordinates_buffer
    address_inputs_buffer,  \* DatabaseClient.address_inputs_buffer
    dataset,                \* the BigQuery dataset: the four persisted tables
    recon,                  \* _process_address_updates: tasks still to visit
    csv,                    \* _process_csv_tasks: where it is, and its lists
    peer,                   \* the four buffers of another session's client
    ret                     \* what the last operation did and returned

vars == <<address_buffer, order_buffer, coordinates_buffer,
          address_inputs_buffer, dataset, recon, csv, peer, ret>>

----------------------------------------------------------------------------
(* Bounds of the model *)

\* rows one of the addresses, orders and address_inputs tables may hold,
\* queued and persisted together
MaxRows == 2

\* rows the ledger (verified_coordinates) may hold, queued and persisted
MaxLedger == 3

\* rows the four tables may hold together, queued and persisted
MaxTotal == 7

\* rows of one device group of a CSV file
MaxGroup == 2

\* self.buffer_size (1000 in the source), scaled so that the threshold is met
buffer_size == 2

\* 1e-7 degrees, in units of 2.5e-8 degrees
Epsilon == 4

\* Python's None, where a record is expected
None == [none |-> TRUE]

\* validate_address raising instead of answering
GeocoderError == [error |-> TRUE]

Tables == {"addresses", "orders", "verified_coordinates", "address_inputs"}

----------------------------------------------------------------------------
(* Strings *)

IsSpace(ch) == ch \in {" ", "\n", "\t"}

UpperChar(ch) ==
    CASE ch = "a" -> "A"
      [] ch = "b" -> "B"
      [] ch = "c" -> "C"
      [] OTHER -> ch

\* str.upper()
Upper(s) == [i \in DOMAIN s |-> UpperChar(s[i])]

\* str.replace("\n", " ")
ReplaceNewlines(s) == [i \in DOMAIN s |-> IF s[i] = "\n" THEN " " ELSE s[i]]

RECURSIVE SplitFrom(_, _, _)
SplitFrom(s, cur, acc) ==
    IF s = <<>>
    THEN IF cur = <<>> THEN acc ELSE Append(acc, cur)
    ELSE IF IsSpace(Head(s))
         THEN SplitFrom(Tail(s), <<>>, IF cur = <<>> THEN acc ELSE Append(acc, cur))
         ELSE SplitFrom(Tail(s), Append(cur, Head(s)), acc)

\* str.split(): the words between runs of whitespace
Split(s) == SplitFrom(s, <<>>, <<>>)

RECURSIVE Join(_)
\* " ".join(words)
Join(words) ==
    IF words = <<>> THEN <<>>
    ELSE IF Len(words) = 1 THEN words[1]
    ELSE words[1] \o <<" ">> \o Join(Tail(words))

\* " ".join(address.replace("\n", " ").split())
CleanText(s) == Join(Split(ReplaceNewlines(s)))

Ord(ch) ==
    CASE ch = " " -> 32
      [] ch = "\n" -> 10
      [] ch = "\t" -> 9
      [] ch = "A" -> 65
      [] ch = "B" -> 66
      [] ch = "C" -> 67
      [] ch = "a" -> 97
      [] ch = "b" -> 98
      [] ch = "c" -> 99
      [] OTHER -> 63

\* half of the 60 bits of an address id
HalfModulus == 2^30

RECURSIVE Digest(_, _)
\* hashlib.sha256(text): SHA-256 is stood in for by a polynomial digest,
\* which is a function of the text alone and is injective on the texts of
\* the model
Digest(s, h) ==
    IF s = <<>> THEN h
    ELSE Digest(Tail(s), (h * 31 + Ord(Head(s))) % (HalfModulus \div 32))

\* int(address_hash[:15], 16): 15 hexadecimal digits are 60 bits, more than
\* the integers of the model checker hold, so the number is kept as its
\* high and low 30 bits
AddressHash(s) == <<Digest(s, 7), Digest(s, 11)>>

----------------------------------------------------------------------------
(* What the outside world can answer *)

\* raw input addresses, compared only for equality
RawPool == {"r1", "r2"}

\* what the address validation API can answer.  The first two results have
\* the same cleaned, upper-cased formatted address, written differently.
ValidationPool ==
    {[formattedAddress |-> <<"a", " ", "b">>, latitude |-> 8, longitude |-> 0],
     [formattedAddress |-> <<"A", " ", " ", "B">>, latitude |-> 8, longitude |-> 0],
     [formattedAddress |-> <<"c">>, latitude |-> 1, longitude |-> 1]}

\* the device positions the fleet tracker can report, in coordinate units
TrackerPool == {<<1, 1>>, <<3, 1>>}

\* the date of a TaskLocation in to_api_dict: a date written by strftime (a
\* task without a date queues the same order row)
TaskDates == {"valid"}

\* round(x, 7) on a coordinate that is not half-way between two 1e-7 steps
Round7(x) == ((x + (Epsilon \div 2)) \div Epsilon) * Epsilon

\* the answers of the load jobs during one operation: ok[t] tells whether a
\* load job on table t succeeds.  The first failed load ends the operation, so
\* it is enough to say which table's load fails, among the tables may_load
\* that the operation can start a load job on
Outcomes(may_load) ==
    {[t \in Tables |-> t # failing] : failing \in may_load \cup {"none"}}

\* every load job succeeds
AllLoad == [t \in Tables |-> TRUE]

\* the queue of a table
buffer_of(db, t) ==
    CASE t = "addresses" -> db.address_buffer
      [] t = "orders" -> db.order_buffer
      [] t = "verified_coordinates" -> db.coordinates_buffer
      [] OTHER -> db.address_inputs_buffer

\* the tables whose queue an append of one record brings to the threshold
AtThreshold(db) ==
    {t \in Tables : Len(buffer_of(db, t)) + 1 >= buffer_size}

\* no table holds more rows than its bound, queued and persisted together,
\* and the four tables no more than MaxTotal
Within(db) ==
    /\ Len(db.address_buffer) + Len(db.addresses) <= MaxRows
    /\ Len(db.order_buffer) + Len(db.orders) <= MaxRows
    /\ Len(db.coordinates_buffer) + Len(db.verified_coordinates) <= MaxLedger
    /\ Len(db.address_inputs_buffer) + Len(db.address_inputs) <= MaxRows
    /\ Len(db.address_buffer) + Len(db.addresses)
         + Len(db.order_buffer) + Len(db.orders)
         + Len(db.coordinates_buffer) + Len(db.verified_coordinates)
         + Len(db.address_inputs_buffer) + Len(db.address_inputs) <= MaxTotal

----------------------------------------------------------------------------
(* The client's state handed through one operation.  A context carries the  *)
(* buffers and tables, whether an exception is propagating, the tables a     *)
(* load job was started on, in order, and the tables whose load job failed. *)

Start(db) == [db |-> db, raised |-> FALSE, jobs |-> <<>>, failed |-> {}]

\* the client and the dataset as the current state holds them
Self ==
    [address_buffer |-> address_buffer,
     order_buffer |-> order_buffer,
     coordinates_buffer |-> coordinates_buffer,
     address_inputs_buffer |-> address_inputs_buffer,
     addresses |-> dataset.addresses,
     orders |-> dataset.orders,
     verified_coordinates |-> dataset.verified_coordinates,
     address_inputs |-> dataset.address_inputs]

Rows(s) == {s[i] : i \in DOMAIN s}

----------------------------------------------------------------------------
(* Queries: they read the persisted tables only, never the buffers *)

\* SELECT ... FROM address_inputs ai JOIN addresses a ... WHERE ai.input_address
\* = @input_address LIMIT 1: the rows the query may return (no ORDER BY)
get_address_by_input(db, input_address) ==
    {[address_id |-> a.address_id, formatted_address |-> a.formatted_address,
      google_lat |-> a.google_lat, google_lng |-> a.google_lng] :
        a \in {x \in Rows(db.addresses) :
                 \E ai \in Rows(db.address_inputs) :
                     /\ ai.input_address = input_address
                     /\ ai.address_id = x.address_id}}

\* SELECT ... FROM addresses WHERE formatted_address = @address LIMIT 1, the
\* parameter being address.upper()
get_address(db, address) ==
    {[address_id |-> a.address_id, formatted_address |-> a.formatted_address,
      google_lat |-> a.google_lat, google_lng |-> a.google_lng] :
        a \in {x \in Rows(db.addresses) : x.formatted_address = Upper(address)}}

\* a variant of get_verified_coordinates with ORDER BY created_at ASC
get_verified_coordinates_oldest(db, address_id) ==
    LET rows == {r \in Rows(db.verified_coordinates) : r.address_id = address_id}
    IN  IF rows = {} THEN None
        ELSE LET row == CHOOSE r \in rows :
                            \A q \in rows : r.created_at <= q.created_at
             IN  [lat |-> row.lat, lon |-> row.lon, created_at |-> row.created_at]

\* SELECT lat, lon, created_at ... ORDER BY created_at DESC LIMIT 1
get_verified_coordinates(db, address_id) ==
    LET rows == {r \in Rows(db.verified_coordinates) : r.address_id = address_id}
    IN  IF rows = {} THEN None
        ELSE LET row == CHOOSE r \in rows :
                            \A q \in rows : q.created_at <= r.created_at
             IN  [lat |-> row.lat, lon |-> row.lon, created_at |-> row.created_at]

\* SELECT google_lat, google_lng FROM addresses WHERE address_id = @address_id,
\* first row (insert_verified_coordinates)
google_coords_of(db, address_id) ==
    {[google_lat |-> a.google_lat, google_lng |-> a.google_lng] :
        a \in {x \in Rows(db.addresses) : x.address_id = address_id}}

\* a variant of get_unverified_addresses without the LEFT JOIN and its WHERE
get_unverified_addresses_all(db) ==
    {[task_id |-> p[1].task_id, address_id |-> p[1].address_id,
      formatted_address |-> p[2].formatted_address] :
        p \in {q \in Rows(db.orders) \X Rows(db.addresses) :
                 q[1].address_id = q[2].address_id}}

\* SELECT DISTINCT t.task_id, t.address_id, a.formatted_address FROM orders t
\* JOIN addresses a ... LEFT JOIN verified_coordinates vc ... WHERE
\* vc.address_id IS NULL
get_unverified_addresses(db) ==
    {[task_id |-> p[1].task_id, address_id |-> p[1].address_id,
      formatted_address |-> p[2].formatted_address] :
        p \in {q \in Rows(db.orders) \X Rows(db.addresses) :
                 /\ q[1].address_id = q[2].address_id
                 /\ ~ \E vc \in Rows(db.verified_coordinates) :
                        vc.address_id = q[1].address_id}}

----------------------------------------------------------------------------
(* Bulk loads: one load job writes the whole queue, or fails and writes     *)
(* nothing.  ok[t] tells whether a load job on table t succeeds during the  *)
(* operation at hand.                                                       *)

\* a variant of _batch_load_addresses that empties the queue before the
\* load job is known to have succeeded
batch_load_addresses_clearing(c, ok) ==
    IF c.raised \/ c.db.address_buffer = <<>> THEN c
    ELSE IF ok["addresses"]
         THEN [c EXCEPT !.db.addresses = @ \o c.db.address_buffer,
                        !.db.address_buffer = <<>>,
                        !.jobs = Append(@, "addresses")]
         ELSE [c EXCEPT !.db.address_buffer = <<>>,
                        !.raised = TRUE,
                        !.jobs = Append(@, "addresses"),
                        !.failed = @ \cup {"addresses"}]

\* _batch_load_addresses
batch_load_addresses(c, ok) ==
    IF c.raised \/ c.db.address_buffer = <<>> THEN c
    ELSE IF ok["addresses"]
         THEN [c EXCEPT !.db.addresses = @ \o c.db.address_buffer,
                        !.db.address_buffer = <<>>,
                        !.jobs = Append(@, "addresses")]
         ELSE [c EXCEPT !.raised = TRUE,
                        !.jobs = Append(@, "addresses"),
                        !.failed = @ \cup {"addresses"}]

\* a variant of _batch_load_orders that leaves the written records in the
\* queue
batch_load_orders_keeping(c, ok) ==
    IF c.raised \/ c.db.order_buffer = <<>> THEN c
    ELSE IF ok["orders"]
         THEN [c EXCEPT !.db.orders = @ \o c.db.order_buffer,
                        !.jobs = Append(@, "orders")]
         ELSE [c EXCEPT !.raised = TRUE,
                        !.jobs = Append(@, "orders"),
                        !.failed = @ \cup {"orders"}]

\* _batch_load_orders
batch_load_orders(c, ok) ==
    IF c.raised \/ c.db.order_buffer = <<>> THEN c
    ELSE IF ok["orders"]
         THEN [c EXCEPT !.db.orders = @ \o c.db.order_buffer,
                        !.db.order_buffer = <<>>,
                        !.jobs = Append(@, "orders")]
         ELSE [c EXCEPT !.raised = TRUE,
                        !.jobs = Append(@, "orders"),
                        !.failed = @ \cup {"orders"}]

\* a variant of _batch_load_coordinates that empties the queue when the load
\* job fails
batch_load_coordinates_dropping(c, ok) ==
    IF c.raised \/ c.db.coordinates_buffer = <<>> THEN c
    ELSE IF ok["verified_coordinates"]
         THEN [c EXCEPT !.db.verified_coordinates = @ \o c.db.coordinates_buffer,
                        !.db.coordinates_buffer = <<>>,
                        !.jobs = Append(@, "verified_coordinates")]
         ELSE [c EXCEPT !.raised = TRUE,
                        !.db.coordinates_buffer = <<>>,
                        !.jobs = Append(@, "verified_coordinates"),
                        !.failed = @ \cup {"verified_coordinates"}]

\* _batch_load_coordinates
batch_load_coordinates(c, ok) ==
    IF c.raised \/ c.db.coordinates_buffer = <<>> THEN c
    ELSE IF ok["verified_coordinates"]
         THEN [c EXCEPT !.db.verified_coordinates = @ \o c.db.coordinates_buffer,
                        !.db.coordinates_buffer = <<>>,
                        !.jobs = Append(@, "verified_coordinates")]
         ELSE [c EXCEPT !.raised = TRUE,
                        !.jobs = Append(@, "verified_coordinates"),
                        !.failed = @ \cup {"verified_coordinates"}]

\* a variant of _batch_load_address_inputs whose load job writes the queue
\* without its last record
batch_load_address_inputs_short(c, ok) ==
    IF c.raised \/ c.db.address_inputs_buffer = <<>> THEN c
    ELSE IF ok["address_inputs"]
         THEN [c EXCEPT !.db.address_inputs =
                            @ \o SubSeq(c.db.address_inputs_buffer, 1,
                                        Len(c.db.address_inputs_buffer) - 1),
                        !.db.address_inputs_buffer = <<>>,
                        !.jobs = Append(@, "address_inputs")]
         ELSE [c EXCEPT !.raised = TRUE,
                        !.jobs = Append(@, "address_inputs"),
                        !.failed = @ \cup {"address_inputs"}]

\* _batch_load_address_inputs
batch_load_address_inputs(c, ok) ==
    IF c.raised \/ c.db.address_inputs_buffer = <<>> THEN c
    ELSE IF ok["address_inputs"]
         THEN [c EXCEPT !.db.address_inputs = @ \o c.db.address_inputs_buffer,
                        !.db.address_inputs_buffer = <<>>,
                        !.jobs = Append(@, "address_inputs")]
         ELSE [c EXCEPT !.raised = TRUE,
                        !.jobs = Append(@, "address_inputs"),
                        !.failed = @ \cup {"address_inputs"}]

\* flush_buffers: the four loads in the source's order; an exception of one
\* load leaves the later ones unrun
flush_buffers(c, ok) ==
    batch_load_address_inputs(
        batch_load_coordinates(
            batch_load_orders(
                batch_load_addresses(c, ok), ok), ok), ok)

----------------------------------------------------------------------------
(* Appends *)

\* a variant of _prepare_address_data that stores and hashes the formatted
\* address in upper case without collapsing its whitespace
address_data_of_verbatim(validation_result) ==
    LET formatted_address == Upper(validation_result.formattedAddress)
    IN  [address_id |-> AddressHash(formatted_address),
         formatted_address |-> formatted_address,
         google_lat |-> validation_result.latitude,
         google_lng |-> validation_result.longitude]

\* _prepare_address_data: the row of a validation result (the address
\* components and created_at are not read by any query and are left out)
address_data_of(validation_result) ==
    LET formatted_address == Upper(CleanText(validation_result.formattedAddress))
    IN  [address_id |-> AddressHash(formatted_address),
         formatted_address |-> formatted_address,
         google_lat |-> validation_result.latitude,
         google_lng |-> validation_result.longitude]

\* the rows of the validation results of the model, computed once
PreparedRows == [v \in ValidationPool |-> address_data_of(v)]

\* a variant of _prepare_address_data whose address_id is the hash of the
\* formatted address as the geocoder wrote it
prepare_address_data_as_written(validation_result) ==
    [PreparedRows[validation_result] EXCEPT
        !.address_id = AddressHash(validation_result.formattedAddress)]

prepare_address_data(validation_result) == PreparedRows[validation_result]

\* a variant of insert_address that flushes every queue at the threshold
insert_address_flushing_all(c, validation_result, ok) ==
    IF c.raised THEN c
    ELSE LET c1 == [c EXCEPT !.db.address_buffer =
                                 Append(@, prepare_address_data(validation_result))]
         IN  IF Len(c1.db.address_buffer) >= buffer_size
             THEN flush_buffers(c1, ok)
             ELSE c1

\* insert_address; its return value is prepare_address_data(...).address_id
insert_address(c, validation_result, ok) ==
    IF c.raised THEN c
    ELSE LET c1 == [c EXCEPT !.db.address_buffer =
                                 Append(@, prepare_address_data(validation_result))]
         IN  IF Len(c1.db.address_buffer) >= buffer_size
             THEN batch_load_addresses(c1, ok)
             ELSE c1

\* a variant of insert_address_input that loads the queue only when its
\* length is exactly buffer_size
insert_address_input_once(c, input_address, address_id, ok) ==
    IF c.raised THEN c
    ELSE LET c1 == [c EXCEPT !.db.address_inputs_buffer =
                                 Append(@, [input_address |-> input_address,
                                            address_id |-> address_id])]
         IN  IF Len(c1.db.address_inputs_buffer) = buffer_size
             THEN batch_load_address_inputs(c1, ok)
             ELSE c1

\* insert_address_input
insert_address_input(c, input_address, address_id, ok) ==
    IF c.raised THEN c
    ELSE LET c1 == [c EXCEPT !.db.address_inputs_buffer =
                                 Append(@, [input_address |-> input_address,
                                            address_id |-> address_id])]
         IN  IF Len(c1.db.address_inputs_buffer) >= buffer_size
             THEN batch_load_address_inputs(c1, ok)
             ELSE c1

\* a variant of insert_task that never looks at the length of the queue
insert_task_unchecked(c, task_id, address_id, date, ok) ==
    IF c.raised THEN c
    ELSE IF date = "invalid" THEN [c EXCEPT !.raised = TRUE]
    ELSE [c EXCEPT !.db.order_buffer =
                       Append(@, [task_id |-> task_id, address_id |-> address_id])]

\* a variant of insert_task that appends the order before it converts the
\* date
insert_task_appending_first(c, task_id, address_id, date, ok) ==
    IF c.raised THEN c
    ELSE LET c1 == [c EXCEPT !.db.order_buffer =
                                 Append(@, [task_id |-> task_id,
                                            address_id |-> address_id])]
         IN  IF date = "invalid" THEN [c1 EXCEPT !.raised = TRUE]
             ELSE IF Len(c1.db.order_buffer) >= buffer_size
             THEN batch_load_orders(c1, ok)
             ELSE c1

\* insert_task: date is "none", "valid" (YYYYMMDD) or "invalid"
insert_task(c, task_id, address_id, date, ok) ==
    IF c.raised THEN c
    ELSE IF date = "invalid" THEN [c EXCEPT !.raised = TRUE]
    ELSE LET c1 == [c EXCEPT !.db.order_buffer =
                                 Append(@, [task_id |-> task_id,
                                            address_id |-> address_id])]
         IN  IF Len(c1.db.order_buffer) >= buffer_size
             THEN batch_load_orders(c1, ok)
             ELSE c1

Abs(x) == IF x < 0 THEN -x ELSE x

\* datetime.now() at an append to the ledger: later than every created_at
\* of the rows queued or persisted
now(db) == Len(db.verified_coordinates) + Len(db.coordinates_buffer) + 1

\* a variant of coordinates_unchanged that also takes a difference of exactly
\* 1e-7 for no change
coordinates_unchanged_inclusive(db, address_id, lat, lng) ==
    LET existing_coords == get_verified_coordinates(db, address_id)
    IN  IF existing_coords # None
        THEN {/\ Abs(existing_coords.lat - lat) <= Epsilon
              /\ Abs(existing_coords.lon - lng) <= Epsilon}
        ELSE IF google_coords_of(db, address_id) = {} THEN {FALSE}
        ELSE {/\ Abs(google_coords.google_lat - lat) <= Epsilon
              /\ Abs(google_coords.google_lng - lng) <= Epsilon :
                  google_coords \in google_coords_of(db, address_id)}

\* insert_verified_coordinates, lines 591-620: the answers to "return False
\* without queueing" (more than one only when the addresses rows of the id
\* disagree on the Google coordinates and the first row is either)
coordinates_unchanged(db, address_id, lat, lng) ==
    LET existing_coords == get_verified_coordinates(db, address_id)
    IN  IF existing_coords # None
        THEN {/\ Abs(existing_coords.lat - lat) < Epsilon
              /\ Abs(existing_coords.lon - lng) < Epsilon}
        ELSE IF google_coords_of(db, address_id) = {} THEN {FALSE}
        ELSE {/\ Abs(google_coords.google_lat - lat) < Epsilon
              /\ Abs(google_coords.google_lng - lng) < Epsilon :
                  google_coords \in google_coords_of(db, address_id)}

\* insert_verified_coordinates; at is datetime.now().  Each outcome has the
\* context and the returned boolean (FALSE stands in when the call raises
\* and returns nothing)
insert_verified_coordinates(c, address_id, lat, lng, at, ok) ==
    IF c.raised THEN {[c |-> c, value |-> FALSE]}
    ELSE {IF unchanged THEN [c |-> c, value |-> FALSE]
          ELSE LET c1 == [c EXCEPT !.db.coordinates_buffer =
                                       Append(@, [address_id |-> address_id,
                                                  lat |-> lat, lon |-> lng,
                                                  created_at |-> at])]
                   c2 == IF Len(c1.db.coordinates_buffer) >= buffer_size
                         THEN batch_load_coordinates(c1, ok)
                         ELSE c1
               IN  [c |-> c2, value |-> ~c2.raised] :
            unchanged \in coordinates_unchanged(c.db, address_id, lat, lng)}

----------------------------------------------------------------------------
(* Address resolution *)

\* the tuple process_address returns: (address_id, lat, lng, is_verified,
\* original_coords); branch names the branch that returned
Resolved(address_id, lat, lng, is_verified, olat, olng, branch) ==
    [address_id |-> address_id, lat |-> lat, lng |-> lng,
     is_verified |-> is_verified,
     original_coords |-> [lat |-> olat, lng |-> olng], branch |-> branch]

\* a variant of with_verified whose original_coords are the coordinates it
\* returns, verified or not
with_verified_as_original(db, row, branch) ==
    LET verified_coords == get_verified_coordinates(db, row.address_id)
    IN  IF verified_coords # None
        THEN Resolved(row.address_id, verified_coords.lat, verified_coords.lon,
                      TRUE, verified_coords.lat, verified_coords.lon, branch)
        ELSE Resolved(row.address_id, row.google_lat, row.google_lng,
                      FALSE, row.google_lat, row.google_lng, branch)

\* process_address, lines 122-140 and 158-173: verified coordinates win over
\* the Google coordinates of the row found
with_verified(db, row, branch) ==
    LET verified_coords == get_verified_coordinates(db, row.address_id)
    IN  IF verified_coords # None
        THEN Resolved(row.address_id, verified_coords.lat, verified_coords.lon,
                      TRUE, row.google_lat, row.google_lng, branch)
        ELSE Resolved(row.address_id, row.google_lat, row.google_lng,
                      FALSE, row.google_lat, row.google_lng, branch)

\* a variant of process_address that answers nothing, without an error, when
\* the input address is unknown and no validation result is given
process_address_lenient(c, input_address, validation_result, ok) ==
    IF c.raised THEN {[c |-> c, value |-> None]}
    ELSE IF get_address_by_input(c.db, input_address) # {}
    THEN {[c |-> c, value |-> with_verified(c.db, existing_input, "input")] :
            existing_input \in get_address_by_input(c.db, input_address)}
    ELSE IF validation_result = None
    THEN {[c |-> c, value |-> None]}
    ELSE IF get_address(c.db, validation_result.formattedAddress) # {}
    THEN {LET c1 == insert_address_input(c, input_address,
                                         existing_address.address_id, ok)
          IN  [c |-> c1,
               value |-> IF c1.raised THEN None
                         ELSE with_verified(c1.db, existing_address, "canonical")] :
            existing_address \in
                get_address(c.db, validation_result.formattedAddress)}
    ELSE LET c1 == insert_address(c, validation_result, ok)
             address_id == prepare_address_data(validation_result).address_id
             c2 == insert_address_input(c1, input_address, address_id, ok)
         IN  {[c |-> c2,
               value |-> IF c2.raised THEN None
                         ELSE Resolved(address_id, validation_result.latitude,
                                       validation_result.longitude, FALSE,
                                       validation_result.latitude,
                                       validation_result.longitude, "fresh")]}

\* a variant of process_address that links the input address once more when
\* it finds it linked
process_address_relinking(c, input_address, validation_result, ok) ==
    IF c.raised THEN {[c |-> c, value |-> None]}
    ELSE IF get_address_by_input(c.db, input_address) # {}
    THEN {LET c1 == insert_address_input(c, input_address,
                                         existing_input.address_id, ok)
          IN  [c |-> c1,
               value |-> IF c1.raised THEN None
                         ELSE with_verified(c1.db, existing_input, "input")] :
            existing_input \in get_address_by_input(c.db, input_address)}
    ELSE IF validation_result = None
    THEN {[c |-> [c EXCEPT !.raised = TRUE], value |-> None]}
    ELSE IF get_address(c.db, validation_result.formattedAddress) # {}
    THEN {LET c1 == insert_address_input(c, input_address,
                                         existing_address.address_id, ok)
          IN  [c |-> c1,
               value |-> IF c1.raised THEN None
                         ELSE with_verified(c1.db, existing_address, "canonical")] :
            existing_address \in
                get_address(c.db, validation_result.formattedAddress)}
    ELSE LET c1 == insert_address(c, validation_result, ok)
             address_id == prepare_address_data(validation_result).address_id
             c2 == insert_address_input(c1, input_address, address_id, ok)
         IN  {[c |-> c2,
               value |-> IF c2.raised THEN None
                         ELSE Resolved(address_id, validation_result.latitude,
                                       validation_result.longitude, FALSE,
                                       validation_result.latitude,
                                       validation_result.longitude, "fresh")]}

\* process_address: validation_result is None when the caller gives none
process_address(c, input_address, validation_result, ok) ==
    IF c.raised THEN {[c |-> c, value |-> None]}
    ELSE IF get_address_by_input(c.db, input_address) # {}
    THEN {[c |-> c, value |-> with_verified(c.db, existing_input, "input")] :
            existing_input \in get_address_by_input(c.db, input_address)}
    ELSE IF validation_result = None
    THEN {[c |-> [c EXCEPT !.raised = TRUE], value |-> None]}
    ELSE IF get_address(c.db, validation_result.formattedAddress) # {}
    THEN {LET c1 == insert_address_input(c, input_address,
                                         existing_address.address_id, ok)
          IN  [c |-> c1,
               value |-> IF c1.raised THEN None
                         ELSE with_verified(c1.db, existing_address, "canonical")] :
            existing_address \in
                get_address(c.db, validation_result.formattedAddress)}
    ELSE LET c1 == insert_address(c, validation_result, ok)
             address_id == prepare_address_data(validation_result).address_id
             c2 == insert_address_input(c1, input_address, address_id, ok)
         IN  {[c |-> c2,
               value |-> IF c2.raised THEN None
                         ELSE Resolved(address_id, validation_result.latitude,
                                       validation_result.longitude, FALSE,
                                       validation_result.latitude,
                                       validation_result.longitude, "fresh")]}

\* the ids the dispatch API has not given out to a task the tables know
Max(S) == CHOOSE x \in S : \A y \in S : y <= x

fresh_task_id(db) ==
    1 + Max({0} \cup {o.task_id : o \in Rows(db.orders) \cup Rows(db.order_buffer)})

\* a variant of single_task_found in which the Google coordinates win over the
\* verified ones
single_task_found_geocoded(db, existing_input) ==
    Resolved(existing_input.address_id, existing_input.google_lat,
             existing_input.google_lng,
             get_verified_coordinates(db, existing_input.address_id) # None,
             existing_input.google_lat, existing_input.google_lng, "input")

\* process_single_task, lines 321-349: the input address was found
single_task_found(db, existing_input) ==
    LET address_id == existing_input.address_id
        verified_coords == get_verified_coordinates(db, address_id)
    IN  IF verified_coords # None
        THEN Resolved(address_id, verified_coords.lat, verified_coords.lon, TRUE,
                      existing_input.google_lat, existing_input.google_lng, "input")
        ELSE Resolved(address_id, existing_input.google_lat,
                      existing_input.google_lng, FALSE,
                      existing_input.google_lat, existing_input.google_lng, "input")

\* a variant of resolve_single_task that validates the address without
\* looking the input address up first
resolve_single_task_uncached(c, input_address, geocode, ok) ==
    IF geocode = GeocoderError
    THEN {[c |-> [c EXCEPT !.raised = TRUE], value |-> None, geocoder_calls |-> 1]}
    ELSE {[c |-> r.c, value |-> r.value, geocoder_calls |-> 1] :
            r \in process_address(c, input_address, geocode, ok)}

\* process_single_task, lines 319-365: the address of the task.  geocode is
\* what validate_address answers: a validation result, or GeocoderError when
\* it raises.  Each outcome has the context, the resolution and the number of
\* validate_address calls made
resolve_single_task(c, input_address, geocode, ok) ==
    IF get_address_by_input(c.db, input_address) # {}
    THEN {[c |-> c, value |-> single_task_found(c.db, existing_input),
           geocoder_calls |-> 0] :
            existing_input \in get_address_by_input(c.db, input_address)}
    ELSE IF geocode = GeocoderError
    THEN {[c |-> [c EXCEPT !.raised = TRUE], value |-> None, geocoder_calls |-> 1]}
    ELSE {[c |-> r.c, value |-> r.value, geocoder_calls |-> 1] :
            r \in process_address(c, input_address, geocode, ok)}

\* a variant of send_and_insert that queues the order before it sends the
\* task
send_and_insert_first(r, dispatch, date, ok) ==
    IF r.c.raised THEN r
    ELSE LET task_id == IF dispatch = "ok" THEN fresh_task_id(r.c.db) ELSE 0
             c1 == insert_task(r.c, task_id, r.value.address_id, date, ok)
         IN  IF dispatch = "error"
             THEN [c |-> [c1 EXCEPT !.raised = TRUE], value |-> None,
                   geocoder_calls |-> r.geocoder_calls]
             ELSE [c |-> c1,
                   value |-> IF c1.raised THEN None
                             ELSE r.value @@ [task_id |-> task_id],
                   geocoder_calls |-> r.geocoder_calls]

\* process_single_task, lines 367-391: send the task, queue the order.
\* dispatch is what send_tasks answers: "ok" (a response with a taskId),
\* "no_task_id" (a response without one) or "error" (it raises).  The task id
\* 0 stands for the empty string
send_and_insert(r, dispatch, date, ok) ==
    IF r.c.raised THEN r
    ELSE IF dispatch = "error"
    THEN [r EXCEPT !.c.raised = TRUE, !.value = None]
    ELSE LET task_id == IF dispatch = "ok" THEN fresh_task_id(r.c.db) ELSE 0
             c1 == insert_task(r.c, task_id, r.value.address_id, date, ok)
         IN  [c |-> c1,
              value |-> IF c1.raised THEN None
                        ELSE r.value @@ [task_id |-> task_id],
              geocoder_calls |-> r.geocoder_calls]

\* process_single_task
process_single_task(c, input_address, geocode, dispatch, date, ok) ==
    {send_and_insert(r, dispatch, date, ok) :
        r \in resolve_single_task(c, input_address, geocode, ok)}

----------------------------------------------------------------------------
(* The CSV path *)

\* _process_csv_tasks, lines 477-509: the input address was found
csv_row_found(db, existing_input) ==
    LET address_id == existing_input.address_id
        verified_coords == get_verified_coordinates(db, address_id)
    IN  IF verified_coords # None
        THEN Resolved(address_id, verified_coords.lat, verified_coords.lon, TRUE,
                      existing_input.google_lat, existing_input.google_lng, "input")
        ELSE Resolved(address_id, existing_input.google_lat,
                      existing_input.google_lng, FALSE,
                      existing_input.google_lat, existing_input.google_lng, "input")

\* a variant of csv_row that links the input address to no address when the
\* geocoder fails
csv_row_linking(c, input_address, geocode, ok) ==
    IF get_address_by_input(c.db, input_address) # {}
    THEN {[c |-> c, value |-> csv_row_found(c.db, existing_input),
           geocoder_calls |-> 0] :
            existing_input \in get_address_by_input(c.db, input_address)}
    ELSE IF geocode = GeocoderError
    THEN {[c |-> [insert_address_input(c, input_address, <<0, 0>>, ok)
                   EXCEPT !.raised = TRUE],
           value |-> None, geocoder_calls |-> 1]}
    ELSE {[c |-> r.c, value |-> r.value, geocoder_calls |-> 1] :
            r \in process_address(c, input_address, geocode, ok)}

\* _process_csv_tasks, lines 466-536: one row of a device group.  A row that
\* raises is skipped: the outcome has raised set and the lists are left alone
csv_row(c, input_address, geocode, ok) ==
    IF get_address_by_input(c.db, input_address) # {}
    THEN {[c |-> c, value |-> csv_row_found(c.db, existing_input),
           geocoder_calls |-> 0] :
            existing_input \in get_address_by_input(c.db, input_address)}
    ELSE IF geocode = GeocoderError
    THEN {[c |-> [c EXCEPT !.raised = TRUE], value |-> None, geocoder_calls |-> 1]}
    ELSE {[c |-> r.c, value |-> r.value, geocoder_calls |-> 1] :
            r \in process_address(c, input_address, geocode, ok)}

RECURSIVE csv_insert_tasks(_, _, _, _, _)
\* _process_csv_tasks, lines 548-584: zip(task_ids, processed_tasks,
\* address_info); an insert_task that raises is caught and reported to the
\* user and the loop goes on.  dates[k] is the date of task k; raised tells in
\* the result whether some insert_task raised
csv_insert_tasks(c, task_ids, address_info, dates, ok) ==
    IF task_ids = <<>> \/ address_info = <<>> THEN c
    ELSE LET c1 == insert_task([c EXCEPT !.raised = FALSE], Head(task_ids),
                               Head(address_info), Head(dates), ok)
             c2 == csv_insert_tasks(c1, Tail(task_ids), Tail(address_info),
                                    Tail(dates), ok)
         IN  [c2 EXCEPT !.raised = c1.raised \/ c2.raised]

\* the ids the dispatch API gives to n tasks sent together
fresh_task_ids(db, n) == [k \in 1..n |-> fresh_task_id(db) + k - 1]

\* _process_csv_tasks between two files.  processed_tasks and address_info
\* grow together (lines 526-533) and only the length of processed_tasks is
\* read, so address_info stands for both lists
CsvIdle == [pc |-> "idle", address_info |-> <<>>]

----------------------------------------------------------------------------
(* The state machine *)

\* DatabaseClient.__init__: the buffers of a client just built
NewClient ==
    [address_buffer |-> <<>>, order_buffer |-> <<>>,
     coordinates_buffer |-> <<>>, address_inputs_buffer |-> <<>>]

Init ==
    /\ address_buffer = <<>>
    /\ order_buffer = <<>>
    /\ coordinates_buffer = <<>>
    /\ address_inputs_buffer = <<>>
    /\ dataset = [addresses |-> <<>>, orders |-> <<>>,
                  verified_coordinates |-> <<>>, address_inputs |-> <<>>]
    /\ recon = <<>>
    /\ csv = CsvIdle
    /\ peer = NewClient
    /\ ret = [op |-> "init", raised |-> FALSE, jobs |-> <<>>, failed |-> {}]

\* the client and the dataset after an operation that ended in context c
Becomes(c) ==
    /\ Within(c.db)
    /\ address_buffer' = c.db.address_buffer
    /\ order_buffer' = c.db.order_buffer
    /\ coordinates_buffer' = c.db.coordinates_buffer
    /\ address_inputs_buffer' = c.db.address_inputs_buffer
    /\ dataset' = [addresses |-> c.db.addresses, orders |-> c.db.orders,
                   verified_coordinates |-> c.db.verified_coordinates,
                   address_inputs |-> c.db.address_inputs]

\* what an operation that ended in context c did
Report(op, c) ==
    [op |-> op, raised |-> c.raised, jobs |-> c.jobs, failed |-> c.failed]

\* DatabaseClient.process_address called on its own
ProcessAddress ==
    /\ recon = <<>> /\ csv.pc = "idle"
    /\ \E input_address \in RawPool :
       \E validation_result \in IF get_address_by_input(Self, input_address) # {}
                                THEN {None}
                                ELSE ValidationPool \cup {None},
          ok \in Outcomes(AtThreshold(Self) \cap {"addresses", "address_inputs"}) :
         \E r \in process_address(Start(Self), input_address, validation_result, ok) :
            /\ Becomes(r.c)
            /\ ret' = Report("process_address", r.c) @@
                      [input_address |-> input_address, value |-> r.value,
                       geocoder_calls |-> 0]
    /\ UNCHANGED <<recon, csv>>
    /\ UNCHANGED peer

\* TaskInputUI.process_single_task
ProcessSingleTask ==
    /\ recon = <<>> /\ csv.pc = "idle"
    /\ \E input_address \in RawPool :
       \E geocode \in IF get_address_by_input(Self, input_address) # {}
                      THEN {GeocoderError}
                      ELSE ValidationPool \cup {GeocoderError},
          dispatch \in {"ok", "no_task_id", "error"},
          date \in TaskDates,
          ok \in Outcomes(AtThreshold(Self) \ {"verified_coordinates"}) :
         \E r \in process_single_task(Start(Self), input_address, geocode,
                                      dispatch, date, ok) :
            /\ Becomes(r.c)
            /\ ret' = Report("process_single_task", r.c) @@
                      [input_address |-> input_address, value |-> r.value,
                       geocoder_calls |-> r.geocoder_calls]
    /\ UNCHANGED <<recon, csv>>
    /\ UNCHANGED peer

\* DatabaseClient.flush_buffers
FlushBuffers ==
    /\ recon = <<>> /\ csv.pc = "idle"
    /\ \E ok \in Outcomes(Tables) :
         LET c == flush_buffers(Start(Self), ok)
         IN  /\ Becomes(c)
             /\ ret' = Report("flush_buffers", c)
    /\ UNCHANGED <<recon, csv>>
    /\ UNCHANGED peer

RECURSIVE Orderings(_)
\* the sequences that list each element of S once
Orderings(S) ==
    IF S = {} THEN {<<>>}
    ELSE UNION {{<<x>> \o rest : rest \in Orderings(S \ {x})} : x \in S}

\* AddressUpdateUI._process_address_updates, lines 68-104: the unverified
\* tasks are read and the tracker answers for some of them, in some order (it
\* knows no task with an empty id)
ReconcileStart ==
    /\ recon = <<>> /\ csv.pc = "idle"
    /\ \E answered \in SUBSET {task \in get_unverified_addresses(Self) :
                                   task.task_id # 0} :
         /\ answered # {}
         /\ recon' \in Orderings(answered)
    /\ ret' = Report("get_unverified_addresses", Start(Self))
    /\ UNCHANGED <<address_buffer, order_buffer, coordinates_buffer,
                   address_inputs_buffer, dataset, csv>>
    /\ UNCHANGED peer

\* AddressUpdateUI._process_address_updates, lines 104-155: one task of the
\* tracker's answer; an exception is logged and the loop goes on
ReconcileTask ==
    /\ recon # <<>>
    /\ \E position \in TrackerPool,
          ok \in Outcomes(AtThreshold(Self) \cap {"verified_coordinates"}) :
         LET address_id == Head(recon).address_id
             lat == Round7(position[1])
             lng == Round7(position[2])
         IN  \E r \in insert_verified_coordinates(Start(Self), address_id,
                                                  lat, lng, now(Self), ok) :
                /\ Becomes(r.c)
                /\ ret' = Report("insert_verified_coordinates", r.c) @@
                          [address_id |-> address_id, lat |-> lat, lng |-> lng,
                           value |-> r.value]
    /\ recon' = Tail(recon)
    /\ UNCHANGED csv
    /\ UNCHANGED peer

\* TaskInputUI._process_csv_tasks, lines 466-536: the next row of the current
\* device group
CsvRow ==
    /\ recon = <<>> /\ csv.pc \in {"idle", "rows", "sent"}
    /\ Len(csv.address_info) < MaxGroup
    /\ \E input_address \in RawPool :
       \E geocode \in IF get_address_by_input(Self, input_address) # {}
                      THEN {GeocoderError}
                      ELSE ValidationPool \cup {GeocoderError},
          ok \in Outcomes(AtThreshold(Self) \cap {"addresses", "address_inputs"}) :
         \E r \in csv_row(Start(Self), input_address, geocode, ok) :
            /\ Becomes(r.c)
            /\ csv' = IF r.c.raised
                      THEN [csv EXCEPT !.pc = "rows"]
                      ELSE [pc |-> "rows",
                            address_info |->
                                Append(csv.address_info, r.value.address_id)]
            /\ ret' = Report("csv_row", r.c) @@
                      [input_address |-> input_address, value |-> r.value,
                       geocoder_calls |-> r.geocoder_calls]
    /\ UNCHANGED recon
    /\ UNCHANGED peer

\* TaskInputUI._process_csv_tasks, lines 538-591: the device group is sent
\* and its orders are queued.  dispatch is what send_tasks answers: "ok"
\* (status 200 and a task id per task), "rejected" (any other response) or
\* "error" (it raises)
CsvSend ==
    /\ csv.pc = "rows"
    /\ \E dispatch \in {"ok", "rejected", "error"},
          dates \in [1..Len(csv.address_info) -> {"valid", "invalid"}],
          ok \in Outcomes({"orders"}) :
         LET c == IF csv.address_info # <<>> /\ dispatch = "ok"
                  THEN csv_insert_tasks(
                           Start(Self),
                           fresh_task_ids(Self, Len(csv.address_info)),
                           csv.address_info, dates, ok)
                  ELSE Start(Self)
         IN  /\ Becomes(c)
             /\ ret' = Report("csv_send", c) @@ [dispatch |-> dispatch]
    /\ csv' = [pc |-> "sent", address_info |-> <<>>]
    /\ UNCHANGED recon
    /\ UNCHANGED peer

\* TaskInputUI._process_csv_tasks, line 616: the closing flush_buffers
CsvFinish ==
    /\ csv.pc = "sent"
    /\ \E ok \in Outcomes(Tables) :
         LET c == flush_buffers(Start(Self), ok)
         IN  /\ Becomes(c)
             /\ ret' = Report("flush_buffers", c)
    /\ csv' = CsvIdle
    /\ UNCHANGED recon
    /\ UNCHANGED peer

Next ==
    \/ ProcessAddress
    \/ ProcessSingleTask
    \/ FlushBuffers
    \/ ReconcileStart
    \/ ReconcileTask
    \/ CsvRow
    \/ CsvSend
    \/ CsvFinish

Spec == Init /\ [][Next]_vars

----------------------------------------------------------------------------
(* The text functions on their own: clean_address, from_pdf_order and      *)
(* _prepare_address_data applied to every short text                        *)

\* the longest text
MaxLen == 3

TextChars == {"a", "A", "b", " ", "\n", "\t"}

\* the texts of at most MaxLen characters
Texts == UNION {[1..n -> TextChars] : n \in 0..MaxLen}

\* a variant of clean_address that drops one leading whitespace character
\* and leaves the other runs of whitespace alone
clean_address_trimming(address) ==
    IF address = <<>> THEN <<>>
    ELSE IF IsSpace(Head(address)) THEN ReplaceNewlines(Tail(address))
    ELSE ReplaceNewlines(address)

\* utils.helpers.clean_address
clean_address(address) ==
    IF address = <<>> THEN <<>> ELSE CleanText(address)

\* TaskLocation.from_pdf_order: the location_address of the task it builds
from_pdf_order(address) == CleanText(address)

\* no client at work: empty queues and tables, no pass under way
Quiet ==
    /\ address_buffer = <<>>
    /\ order_buffer = <<>>
    /\ coordinates_buffer = <<>>
    /\ address_inputs_buffer = <<>>
    /\ dataset = [addresses |-> <<>>, orders |-> <<>>,
                  verified_coordinates |-> <<>>, address_inputs |-> <<>>]
    /\ recon = <<>>
    /\ csv = CsvIdle
    /\ peer = NewClient

\* everything but ret
client_vars == <<address_buffer, order_buffer, coordinates_buffer,
                 address_inputs_buffer, dataset, recon, csv, peer>>

\* an address typed by the user or extracted from a PDF
InitClean ==
    /\ Quiet
    /\ ret \in {[op |-> "input", address |-> s] : s \in Texts}

\* the text the next cleaning is given: the input, or the text the last
\* cleaning returned
NextAddress == IF ret.op = "input" THEN ret.address ELSE ret.value

\* clean_address applied to the input, or to a cleaned text once more
CleanAddress ==
    /\ ret' = [op |-> "clean_address", address |-> NextAddress,
               value |-> clean_address(NextAddress),
               applied |-> IF ret.op = "input" THEN 1 ELSE 2]
    /\ UNCHANGED client_vars

\* from_pdf_order applied to the input, or to a cleaned text once more
FromPdfOrder ==
    /\ ret' = [op |-> "from_pdf_order", address |-> NextAddress,
               value |-> from_pdf_order(NextAddress),
               applied |-> IF ret.op = "input" THEN 1 ELSE 2]
    /\ UNCHANGED client_vars

NextClean ==
    \/ CleanAddress
    \/ FromPdfOrder

SpecClean == InitClean /\ [][NextClean]_vars

\* the validation results _prepare_address_data is given: every short text
\* as formatted address, with two different locations
HashInputs ==
    {[formattedAddress |-> s, latitude |-> la, longitude |-> 0] :
        s \in Texts, la \in {0, 8}}

InitHash ==
    /\ Quiet
    /\ ret \in {[op |-> "input", validation_result |-> v] : v \in HashInputs}

\* _prepare_address_data applied to the validation result
PrepareAddressData ==
    /\ ret.op = "input"
    /\ ret' = [op |-> "_prepare_address_data",
               validation_result |-> ret.validation_result,
               value |-> address_data_of(ret.validation_result)]
    /\ UNCHANGED client_vars

NextHash == PrepareAddressData

SpecHash == InitHash /\ [][NextHash]_vars

----------------------------------------------------------------------------
(* Two sessions: two script runs, each with its own DatabaseClient, on the  *)
(* same dataset.  The first session's client is the four buffer variables,  *)
(* the second session's client is peer.                                     *)

\* rows the addresses table, or the address_inputs table, may hold, written
\* and queued in the two clients together
MaxSessionRows == 4

Sessions == {1, 2}

\* what validate_address answers for a raw address: the geocoder gives a raw
\* address one real address and one location, which it may write in more
\* than one way
Geocoder ==
    [input_address \in RawPool |->
        IF input_address = "r1"
        THEN {v \in ValidationPool :
                Upper(CleanText(v.formattedAddress)) = <<"A", " ", "B">>}
        ELSE {v \in ValidationPool :
                Upper(CleanText(v.formattedAddress)) = <<"C">>}]

\* the client of a session, and the dataset
ClientOf(session) ==
    IF session = 1 THEN Self
    ELSE [address_buffer |-> peer.address_buffer,
          order_buffer |-> peer.order_buffer,
          coordinates_buffer |-> peer.coordinates_buffer,
          address_inputs_buffer |-> peer.address_inputs_buffer,
          addresses |-> dataset.addresses,
          orders |-> dataset.orders,
          verified_coordinates |-> dataset.verified_coordinates,
          address_inputs |-> dataset.address_inputs]

\* the client of the other session
OtherClient(session) == ClientOf(3 - session)

\* the client of the session and the dataset after an operation of the
\* session that ended in context c
SessionBecomes(session, c) ==
    /\ Len(c.db.addresses) + Len(c.db.address_buffer)
         + Len(OtherClient(session).address_buffer) <= MaxSessionRows
    /\ Len(c.db.address_inputs) + Len(c.db.address_inputs_buffer)
         + Len(OtherClient(session).address_inputs_buffer) <= MaxSessionRows
    /\ dataset' = [addresses |-> c.db.addresses, orders |-> c.db.orders,
                   verified_coordinates |-> c.db.verified_coordinates,
                   address_inputs |-> c.db.address_inputs]
    /\ IF session = 1
       THEN /\ address_buffer' = c.db.address_buffer
            /\ order_buffer' = c.db.order_buffer
            /\ coordinates_buffer' = c.db.coordinates_buffer
            /\ address_inputs_buffer' = c.db.address_inputs_buffer
            /\ peer' = peer
       ELSE /\ peer' = [address_buffer |-> c.db.address_buffer,
                        order_buffer |-> c.db.order_buffer,
                        coordinates_buffer |-> c.db.coordinates_buffer,
                        address_inputs_buffer |-> c.db.address_inputs_buffer]
            /\ UNCHANGED <<address_buffer, order_buffer, coordinates_buffer,
                           address_inputs_buffer>>

InitSessions ==
    /\ Quiet
    /\ ret = [op |-> "init", raised |-> FALSE, jobs |-> <<>>, failed |-> {}]

\* process_single_task, lines 319-365, in one of the sessions: the address
\* of a task is resolved
SessionResolve ==
    /\ \E session \in Sessions, input_address \in RawPool :
       \E geocode \in Geocoder[input_address],
          ok \in Outcomes(AtThreshold(ClientOf(session))
                            \cap {"addresses", "address_inputs"}) :
         \E r \in resolve_single_task(Start(ClientOf(session)), input_address,
                                      geocode, ok) :
            /\ SessionBecomes(session, r.c)
            /\ ret' = Report("resolve", r.c) @@
                      [session |-> session, input_address |-> input_address,
                       value |-> r.value, geocoder_calls |-> r.geocoder_calls]
    /\ UNCHANGED <<recon, csv>>

\* main(), line 158, in one of the sessions: flush_buffers at the end of the
\* script run
SessionFlush ==
    /\ \E session \in Sessions,
          ok \in Outcomes({"addresses", "address_inputs"}) :
         LET c == flush_buffers(Start(ClientOf(session)), ok)
         IN  /\ SessionBecomes(session, c)
             /\ ret' = Report("flush_buffers", c) @@ [session |-> session]
    /\ UNCHANGED <<recon, csv>>

NextSessions ==
    \/ SessionResolve
    \/ SessionFlush

SpecSessions == InitSessions /\ [][NextSessions]_vars

----------------------------------------------------------------------------
(* One client whose flush_buffers is called again until every load job     *)
(* succeeds: appends to the four queues and flush_buffers, in any order.    *)
(* ret tells only which operation ran last and whether it raised.           *)

\* rows the four tables may hold together in this specification, queued and
\* written
MaxRetryRows == 4

\* the address the records of this specification are about
RetryAddress == CHOOSE v \in ValidationPool : v.formattedAddress = <<"c">>

\* the client and the dataset after an operation that ended in context c
RetryBecomes(op, c) ==
    /\ Becomes(c)
    /\ Len(c.db.address_buffer) + Len(c.db.addresses)
         + Len(c.db.order_buffer) + Len(c.db.orders)
         + Len(c.db.coordinates_buffer) + Len(c.db.verified_coordinates)
         + Len(c.db.address_inputs_buffer) + Len(c.db.address_inputs)
         <= MaxRetryRows
    /\ ret' = [op |-> op, raised |-> c.raised]
    /\ UNCHANGED <<recon, csv, peer>>

InitRetry ==
    /\ Quiet
    /\ ret = [op |-> "init", raised |-> FALSE]

\* DatabaseClient.insert_address
RetryInsertAddress ==
    \E ok \in Outcomes(AtThreshold(Self) \cap {"addresses"}) :
        RetryBecomes("insert_address",
                     insert_address(Start(Self), RetryAddress, ok))

\* DatabaseClient.insert_address_input
RetryInsertAddressInput ==
    \E ok \in Outcomes(AtThreshold(Self) \cap {"address_inputs"}) :
        RetryBecomes("insert_address_input",
                     insert_address_input(
                         Start(Self), "r1",
                         prepare_address_data(RetryAddress).address_id, ok))

\* DatabaseClient.insert_task
RetryInsertTask ==
    \E date \in TaskDates, ok \in Outcomes(AtThreshold(Self) \cap {"orders"}) :
        RetryBecomes("insert_task",
                     insert_task(Start(Self), fresh_task_id(Self),
                                 prepare_address_data(RetryAddress).address_id,
                                 date, ok))

\* DatabaseClient.insert_verified_coordinates
RetryInsertVerifiedCoordinates ==
    \E position \in TrackerPool,
       ok \in Outcomes(AtThreshold(Self) \cap {"verified_coordinates"}) :
      \E r \in insert_verified_coordinates(
                   Start(Self), prepare_address_data(RetryAddress).address_id,
                   Round7(position[1]), Round7(position[2]), now(Self), ok) :
         RetryBecomes("insert_verified_coordinates", r.c)

\* DatabaseClient.flush_buffers
RetryFlushBuffers ==
    \E ok \in Outcomes(Tables) :
        RetryBecomes("flush_buffers", flush_buffers(Start(Self), ok))

\* a flush_buffers in which every load job succeeds
FlushSucceeds ==
    RetryBecomes("flush_buffers", flush_buffers(Start(Self), AllLoad))

NextRetry ==
    \/ RetryInsertAddress
    \/ RetryInsertAddressInput
    \/ RetryInsertTask
    \/ RetryInsertVerifiedCoordinates
    \/ RetryFlushBuffers

SpecRetry ==
    /\ InitRetry
    /\ [][NextRetry]_vars
    /\ WF_vars(FlushSucceeds)

----------------------------------------------------------------------------
(* One DatabaseClient called method by method: the four appends and         *)
(* flush_buffers in any order, every load job free to fail.  ret keeps the  *)
(* report of the call with its table and, for insert_task, its date.        *)

\* rows one table may hold in this specification, queued and written
MaxClientRows == 3

\* rows the four tables may hold together in this specification
MaxClientTotal == 5

\* the dates insert_task may be given: a YYYYMMDD string, or a string of
\* digits that is no date (the CSV path hands on str(int(x)) of the date
\* column)
ClientDates == {"valid", "invalid"}

\* the client and the dataset after a call that ended in context c
ClientBecomes(c) ==
    /\ \A t \in Tables : Len(c.db[t]) + Len(buffer_of(c.db, t)) <= MaxClientRows
    /\ Len(c.db.address_buffer) + Len(c.db.addresses)
         + Len(c.db.order_buffer) + Len(c.db.orders)
         + Len(c.db.coordinates_buffer) + Len(c.db.verified_coordinates)
         + Len(c.db.address_inputs_buffer) + Len(c.db.address_inputs)
         <= MaxClientTotal
    /\ address_buffer' = c.db.address_buffer
    /\ order_buffer' = c.db.order_buffer
    /\ coordinates_buffer' = c.db.coordinates_buffer
    /\ address_inputs_buffer' = c.db.address_inputs_buffer
    /\ dataset' = [addresses |-> c.db.addresses, orders |-> c.db.orders,
                   verified_coordinates |-> c.db.verified_coordinates,
                   address_inputs |-> c.db.address_inputs]
    /\ UNCHANGED <<recon, csv, peer>>

InitClient ==
    /\ Quiet
    /\ ret = Report("init", Start(Self))

\* DatabaseClient.insert_address
ClientInsertAddress ==
    \E ok \in Outcomes({"addresses"}) :
        LET c == insert_address(Start(Self), RetryAddress, ok)
        IN  /\ ClientBecomes(c)
            /\ ret' = Report("insert_address", c) @@ [table |-> "addresses"]

\* DatabaseClient.insert_address_input
ClientInsertAddressInput ==
    \E ok \in Outcomes({"address_inputs"}) :
        LET c == insert_address_input(
                     Start(Self), "r1",
                     prepare_address_data(RetryAddress).address_id, ok)
        IN  /\ ClientBecomes(c)
            /\ ret' = Report("insert_address_input", c)
                          @@ [table |-> "address_inputs"]

\* DatabaseClient.insert_task
ClientInsertTask ==
    \E date \in ClientDates, ok \in Outcomes({"orders"}) :
        LET c == insert_task(Start(Self), fresh_task_id(Self),
                             prepare_address_data(RetryAddress).address_id,
                             date, ok)
        IN  /\ ClientBecomes(c)
            /\ ret' = Report("insert_task", c)
                          @@ [table |-> "orders", date |-> date]

\* DatabaseClient.insert_verified_coordinates
ClientInsertVerifiedCoordinates ==
    \E position \in TrackerPool, ok \in Outcomes({"verified_coordinates"}) :
      \E r \in insert_verified_coordinates(
                   Start(Self), prepare_address_data(RetryAddress).address_id,
                   Round7(position[1]), Round7(position[2]), now(Self), ok) :
         /\ ClientBecomes(r.c)
         /\ ret' = Report("insert_verified_coordinates", r.c)
                       @@ [table |-> "verified_coordinates", value |-> r.value]

\* DatabaseClient.flush_buffers
ClientFlushBuffers ==
    \E ok \in Outcomes(Tables) :
        LET c == flush_buffers(Start(Self), ok)
        IN  /\ ClientBecomes(c)
            /\ ret' = Report("flush_buffers", c)

NextClient ==
    \/ ClientInsertAddress
    \/ ClientInsertAddressInput
    \/ ClientInsertTask
    \/ ClientInsertVerifiedCoordinates
    \/ ClientFlushBuffers

SpecClient == InitClient /\ [][NextClient]_vars

----------------------------------------------------------------------------
(* The CSV path with its two lists: _process_csv_tasks keeps processed_tasks *)
(* and address_info side by side, one entry per row that was resolved.       *)

\* rows of one device group, skipped rows included
MaxGroupRows == 3

\* _process_csv_tasks before the first row of a file
CsvFileIdle ==
    [pc |-> "idle", row |-> 0, processed_tasks |-> <<>>, address_info |-> <<>>]

\* a variant of csv_lists that appends the task before the row is resolved,
\* so that a row that fails has its task in processed_tasks
csv_lists_early(lists, local_id, r) ==
    [lists EXCEPT
        !.pc = "rows",
        !.row = local_id,
        !.processed_tasks =
            Append(@, [local_id |-> local_id,
                       lat |-> IF r.c.raised THEN 0 ELSE r.value.lat,
                       lng |-> IF r.c.raised THEN 0 ELSE r.value.lng]),
        !.address_info =
            IF r.c.raised THEN @
            ELSE Append(@, [address_id |-> r.value.address_id,
                            local_id |-> local_id,
                            is_verified |-> r.value.is_verified,
                            original_coords |-> r.value.original_coords])]

\* _process_csv_tasks, lines 521-536: the two lists after the row local_id
\* whose resolution ended as r; a row that raised is reported and skipped
csv_lists(lists, local_id, r) ==
    IF r.c.raised
    THEN [lists EXCEPT !.pc = "rows", !.row = local_id]
    ELSE [lists EXCEPT
            !.pc = "rows",
            !.row = local_id,
            !.processed_tasks =
                Append(@, [local_id |-> local_id,
                           lat |-> r.value.lat, lng |-> r.value.lng]),
            !.address_info =
                Append(@, [address_id |-> r.value.address_id,
                           local_id |-> local_id,
                           is_verified |-> r.value.is_verified,
                           original_coords |-> r.value.original_coords])]

InitCsv ==
    /\ address_buffer = <<>>
    /\ order_buffer = <<>>
    /\ coordinates_buffer = <<>>
    /\ address_inputs_buffer = <<>>
    /\ dataset = [addresses |-> <<>>, orders |-> <<>>,
                  verified_coordinates |-> <<>>, address_inputs |-> <<>>]
    /\ recon = <<>>
    /\ csv = CsvFileIdle
    /\ peer = NewClient
    /\ ret = [op |-> "init", raised |-> FALSE, jobs |-> <<>>, failed |-> {}]

\* _process_csv_tasks, lines 466-536: the next row of the current device
\* group; geocoder_failed tells whether validate_address was called and raised
CsvGroupRow ==
    /\ csv.row < MaxGroupRows
    /\ \E input_address \in RawPool :
       \E geocode \in IF get_address_by_input(Self, input_address) # {}
                      THEN {GeocoderError}
                      ELSE ValidationPool \cup {GeocoderError},
          ok \in Outcomes(AtThreshold(Self) \cap {"addresses", "address_inputs"}) :
         \E r \in csv_row(Start(Self), input_address, geocode, ok) :
            /\ Becomes(r.c)
            /\ csv' = csv_lists(csv, csv.row + 1, r)
            /\ ret' = Report("csv_row", r.c) @@
                      [input_address |-> input_address, value |-> r.value,
                       geocoder_calls |-> r.geocoder_calls,
                       geocoder_failed |-> /\ r.geocoder_calls = 1
                                           /\ geocode = GeocoderError]
    /\ UNCHANGED <<recon, peer>>

\* _process_csv_tasks, lines 538-591: the group is sent and its orders are
\* queued, task k with the address_id of entry k of address_info
CsvGroupSend ==
    /\ csv.pc = "rows"
    /\ \E dispatch \in {"ok", "rejected", "error"},
          dates \in [1..Len(csv.address_info) -> {"valid", "invalid"}],
          ok \in Outcomes({"orders"}) :
         LET c == IF csv.processed_tasks # <<>> /\ dispatch = "ok"
                  THEN csv_insert_tasks(
                           Start(Self),
                           fresh_task_ids(Self, Len(csv.processed_tasks)),
                           [k \in DOMAIN csv.address_info |->
                               csv.address_info[k].address_id],
                           dates, ok)
                  ELSE Start(Self)
         IN  /\ Becomes(c)
             /\ ret' = Report("csv_send", c) @@ [dispatch |-> dispatch]
    /\ csv' = [CsvFileIdle EXCEPT !.pc = "sent"]
    /\ UNCHANGED <<recon, peer>>

\* _process_csv_tasks, line 616: the closing flush_buffers
CsvFileEnd ==
    /\ csv.pc = "sent"
    /\ \E ok \in Outcomes(Tables) :
         LET c == flush_buffers(Start(Self), ok)
         IN  /\ Becomes(c)
             /\ ret' = Report("flush_buffers", c)
    /\ csv' = CsvFileIdle
    /\ UNCHANGED <<recon, peer>>

NextCsv ==
    \/ CsvGroupRow
    \/ CsvGroupSend
    \/ CsvFileEnd

SpecCsv == InitCsv /\ [][NextCsv]_vars

----------------------------------------------------------------------------
(* One resolution, call by call: process_single_task, lines 318-357, and   *)
(* process_address, lines 119-185.  ret is the frame of the running call:  *)
(* pc is the call it is about to make and log the calls it has made, each   *)
(* with its outcome (found: the lookup found a row, the geocoder answered,  *)
(* the insert returned).                                                    *)

\* a variant of step_after that validates the address whatever the lookup
\* of the input address found
step_after_eager(pc, found) ==
    CASE pc = "lookup" -> "validate_address"
      [] pc = "validate_address" -> IF found THEN "process_address" ELSE "done"
      [] pc = "process_address" -> IF found THEN "done" ELSE "get_address"
      [] pc = "get_address" -> IF found THEN "insert_address_input"
                               ELSE "insert_address"
      [] pc = "insert_address" -> IF found THEN "insert_address_input" ELSE "done"
      [] OTHER -> "done"

\* the call that follows the call at pc, given its outcome: "lookup" is
\* get_address_by_input at task_input.py line 319, "process_address" is
\* get_address_by_input at database_client.py line 120
step_after(pc, found) ==
    CASE pc = "lookup" -> IF found THEN "done" ELSE "validate_address"
      [] pc = "validate_address" -> IF found THEN "process_address" ELSE "done"
      [] pc = "process_address" -> IF found THEN "done" ELSE "get_address"
      [] pc = "get_address" -> IF found THEN "insert_address_input"
                               ELSE "insert_address"
      [] pc = "insert_address" -> IF found THEN "insert_address_input" ELSE "done"
      [] OTHER -> "done"

\* no call is running
IdleFrame ==
    [op |-> "init", pc |-> "idle", input_address |-> "",
     validation_result |-> None, address_id |-> <<0, 0>>, log |-> <<>>,
     raised |-> FALSE]

\* the frame after the call named call, made at ret.pc, ended with found
Logged(call, found) ==
    [ret EXCEPT !.log = Append(@, [call |-> call, found |-> found]),
                !.pc = step_after(ret.pc, found)]

\* the queues and the tables stay as they are
NoWrite ==
    UNCHANGED <<address_buffer, order_buffer, coordinates_buffer,
                address_inputs_buffer, dataset>>

InitResolve ==
    /\ Quiet
    /\ ret = IdleFrame

\* process_single_task is called for a task
ResolveCall ==
    /\ ret.pc \in {"idle", "done"}
    /\ \E input_address \in RawPool :
         ret' = [IdleFrame EXCEPT !.op = "process_single_task", !.pc = "lookup",
                                  !.input_address = input_address]
    /\ NoWrite
    /\ UNCHANGED <<recon, csv, peer>>

\* task_input.py line 319
ResolveLookup ==
    /\ ret.pc = "lookup"
    /\ ret' = Logged("get_address_by_input",
                     get_address_by_input(Self, ret.input_address) # {})
    /\ NoWrite
    /\ UNCHANGED <<recon, csv, peer>>

\* task_input.py line 353
ResolveValidate ==
    /\ ret.pc = "validate_address"
    /\ \E geocode \in ValidationPool \cup {GeocoderError} :
         ret' = [Logged("validate_address", geocode # GeocoderError) EXCEPT
                    !.validation_result =
                        IF geocode = GeocoderError THEN None ELSE geocode,
                    !.raised = (geocode = GeocoderError)]
    /\ NoWrite
    /\ UNCHANGED <<recon, csv, peer>>

\* database_client.py line 120
ResolveProcessAddress ==
    /\ ret.pc = "process_address"
    /\ ret' = Logged("get_address_by_input",
                     get_address_by_input(Self, ret.input_address) # {})
    /\ NoWrite
    /\ UNCHANGED <<recon, csv, peer>>

\* database_client.py line 150
ResolveGetAddress ==
    /\ ret.pc = "get_address"
    /\ LET existing == get_address(Self, ret.validation_result.formattedAddress)
       IN  IF existing = {}
           THEN ret' = Logged("get_address", FALSE)
           ELSE \E existing_address \in existing :
                   ret' = [Logged("get_address", TRUE) EXCEPT
                              !.address_id = existing_address.address_id]
    /\ NoWrite
    /\ UNCHANGED <<recon, csv, peer>>

\* database_client.py line 177
ResolveInsertAddress ==
    /\ ret.pc = "insert_address"
    /\ \E ok \in Outcomes(AtThreshold(Self) \cap {"addresses"}) :
         LET c == insert_address(Start(Self), ret.validation_result, ok)
         IN  /\ Becomes(c)
             /\ ret' = [Logged("insert_address", ~c.raised) EXCEPT
                           !.address_id =
                               prepare_address_data(ret.validation_result).address_id,
                           !.raised = c.raised]
    /\ UNCHANGED <<recon, csv, peer>>

\* database_client.py lines 156 and 180
ResolveInsertAddressInput ==
    /\ ret.pc = "insert_address_input"
    /\ \E ok \in Outcomes(AtThreshold(Self) \cap {"address_inputs"}) :
         LET c == insert_address_input(Start(Self), ret.input_address,
                                       ret.address_id, ok)
         IN  /\ Becomes(c)
             /\ ret' = [Logged("insert_address_input", ~c.raised) EXCEPT
                           !.raised = c.raised]
    /\ UNCHANGED <<recon, csv, peer>>

\* main(), line 158: flush_buffers at the end of the script run
ResolveFlush ==
    /\ ret.pc = "done"
    /\ \E ok \in Outcomes({"addresses", "address_inputs"}) :
         Becomes(flush_buffers(Start(Self), ok))
    /\ ret' = IdleFrame
    /\ UNCHANGED <<recon, csv, peer>>

NextResolve ==
    \/ ResolveCall
    \/ ResolveLookup
    \/ ResolveValidate
    \/ ResolveProcessAddress
    \/ ResolveGetAddress
    \/ ResolveInsertAddress
    \/ ResolveInsertAddressInput
    \/ ResolveFlush

SpecResolve == InitResolve /\ [][NextResolve]_vars

----------------------------------------------------------------------------
(* The chunks of a reconciliation pass: _chunk_tasks applied to a task list *)
(* and the loop of _process_address_updates over the chunks, one fetch from *)
(* the fleet tracker per chunk.                                             *)

\* the chunk size of the model; it stands for the default chunk_size of 50
chunk_size == 2

\* the longest task list of this specification
MaxTasks == 5

\* the task lists get_unverified_addresses may return; a task is written as
\* its task_id
TaskLists == UNION {[1..n -> {1, 2}] : n \in 0..MaxTasks}

Min(a, b) == IF a <= b THEN a ELSE b

\* a variant of _chunk_tasks that keeps full chunks only
chunk_tasks_full(tasks, size) ==
    [k \in 1..(Len(tasks) \div size) |->
        SubSeq(tasks, (k - 1) * size + 1, k * size)]

\* _chunk_tasks: [tasks[i:i + chunk_size] for i in range(0, len(tasks),
\* chunk_size)]
chunk_tasks(tasks, size) ==
    [k \in 1..((Len(tasks) + size - 1) \div size) |->
        SubSeq(tasks, (k - 1) * size + 1, Min(k * size, Len(tasks)))]

\* the task list the pass is given
InitChunk ==
    /\ Quiet
    /\ ret \in {[op |-> "input", tasks |-> tasks] : tasks \in TaskLists}

\* _process_address_updates, line 84: chunks = self._chunk_tasks(tasks)
ChunkTasks ==
    /\ ret.op = "input"
    /\ ret' = [op |-> "chunk_tasks", tasks |-> ret.tasks,
               chunks |-> chunk_tasks(ret.tasks, chunk_size),
               fetched |-> <<>>, handled |-> <<>>]
    /\ UNCHANGED client_vars

\* _process_address_updates, lines 89-164: the next chunk.  The fetch
\* answers with the tasks ("ok"), answers without status 200 or without
\* tasks ("no_tasks"), or raises ("error"); an exception is reported and the
\* loop goes on with the next chunk.  handled lists the tasks whose
\* coordinates were handed on, chunk by chunk
ChunkFetch ==
    /\ ret.op \in {"chunk_tasks", "fetch_tasks_by_ids"}
    /\ Len(ret.fetched) < Len(ret.chunks)
    /\ \E answer \in {"ok", "no_tasks", "error"} :
         LET chunk == ret.chunks[Len(ret.fetched) + 1]
         IN  ret' = [ret EXCEPT
                        !.op = "fetch_tasks_by_ids",
                        !.fetched = Append(@, answer),
                        !.handled = Append(@, IF answer = "ok" THEN chunk
                                              ELSE <<>>)]
    /\ UNCHANGED client_vars

\* _process_address_updates, lines 166-175: the loop is over, the counts are
\* shown
ChunksDone ==
    /\ ret.op \in {"chunk_tasks", "fetch_tasks_by_ids"}
    /\ Len(ret.fetched) = Len(ret.chunks)
    /\ ret' = [ret EXCEPT !.op = "done"]
    /\ UNCHANGED client_vars

NextChunk ==
    \/ ChunkTasks
    \/ ChunkFetch
    \/ ChunksDone

SpecChunk == InitChunk /\ [][NextChunk]_vars

----------------------------------------------------------------------------
(* Properties.  ret describes the operation a step has just run, so a       *)
(* formula over ret' and the state before and after the step speaks of one  *)
(* call; a formula over ret and ret' of two calls in a row.                 *)

\* the operations that resolve a raw address
ResolutionOps == {"process_address", "process_single_task", "csv_row"}

\* the operations that append to a queue
AppendOps == ResolutionOps \cup {"csv_send", "insert_verified_coordinates"}

\* the rows of a table, persisted and queued, oldest first
AllRows(db, t) == db[t] \o buffer_of(db, t)

\* p is a leading part of s
IsPrefix(p, s) == Len(p) <= Len(s) /\ SubSeq(s, 1, Len(p)) = p

\* the rows of the ledger, queued and persisted
LedgerRows == Len(coordinates_buffer) + Len(dataset.verified_coordinates)

\* C1: a resolution of a raw address that address_inputs already links to an
\* addresses row (both persisted) makes no call of validate_address, on the
\* single-task path, on the CSV path and in process_address; process_address
\* then answers from the link even when it is given no validation result
CacheShortCircuit ==
    [][(/\ ret'.op \in ResolutionOps
        /\ get_address_by_input(Self, ret'.input_address) # {})
       => /\ ret'.geocoder_calls = 0
          /\ ret'.op = "process_address"
                => ~ret'.raised /\ ret'.value.branch = "input"]_vars

\* C1: a single task was resolved from a persisted link, without the geocoder
CacheShortCircuitWitness ==
    /\ ret.op = "process_single_task"
    /\ ~ret.raised
    /\ ret.geocoder_calls = 0
    /\ get_address_by_input(Self, ret.input_address) # {}

\* C2: once a raw address has been resolved, the next resolution of the same
\* raw text makes no call of validate_address, whether or not the queues were
\* flushed in between (here: the two resolutions follow each other)
MemoizedAfterFirstResolution ==
    [][(/\ ret.op \in ResolutionOps
        /\ ~ret.raised
        /\ ret'.op \in ResolutionOps
        /\ ret'.input_address = ret.input_address)
       => ret'.geocoder_calls = 0]_vars

\* C3: two calls of insert_verified_coordinates in a row for one address with
\* the same coordinate append one ledger row in total: when the first call
\* appended a row, the second appends none (the two calls may come from two
\* tasks of the address in one reconciliation pass)
SameCoordinateAppendsOnce ==
    [][(/\ ret.op = "insert_verified_coordinates"
        /\ ret.value = TRUE
        /\ ret'.op = "insert_verified_coordinates"
        /\ ~ret'.raised
        /\ ret'.address_id = ret.address_id
        /\ ret'.lat = ret.lat
        /\ ret'.lng = ret.lng)
       => LedgerRows' = LedgerRows]_vars

\* what insert_verified_coordinates compares a coordinate against: the
\* coordinate get_verified_coordinates reads from the ledger table when the
\* address has one, otherwise the Google coordinates of an addresses row
ComparisonBaseline(db, address_id) ==
    LET existing_coords == get_verified_coordinates(db, address_id)
    IN  IF existing_coords # None
        THEN {[lat |-> existing_coords.lat, lng |-> existing_coords.lon]}
        ELSE {[lat |-> g.google_lat, lng |-> g.google_lng] :
                g \in google_coords_of(db, address_id)}

\* C4 as stated: insert_verified_coordinates appends a ledger row if and only
\* if the coordinate differs from the baseline by more than 1e-7 in at least
\* one axis, so that a difference of exactly 1e-7 appends nothing
AppendsIffBeyondEpsilon ==
    [][ret'.op = "insert_verified_coordinates"
       => \E b \in ComparisonBaseline(Self, ret'.address_id) :
             (LedgerRows' = LedgerRows + 1)
                <=> (\/ Abs(b.lat - ret'.lat) > Epsilon
                     \/ Abs(b.lng - ret'.lng) > Epsilon)]_vars

\* C4, amended: insert_verified_coordinates appends a ledger row, holding the
\* address id and the coordinate, if and only if the coordinate differs from
\* the baseline by at least 1e-7 in at least one axis (a difference of exactly
\* 1e-7 appends a row); otherwise it appends nothing.  The baseline is the
\* coordinate get_verified_coordinates reads from the ledger table when the
\* address has one, and only otherwise the Google coordinates of its
\* addresses row
AppendsIffAtLeastEpsilon ==
    [][ret'.op = "insert_verified_coordinates"
       => /\ LedgerRows' \in {LedgerRows, LedgerRows + 1}
          /\ \E b \in ComparisonBaseline(Self, ret'.address_id) :
                (LedgerRows' = LedgerRows + 1)
                   <=> (\/ Abs(b.lat - ret'.lat) >= Epsilon
                        \/ Abs(b.lng - ret'.lng) >= Epsilon)
          /\ LedgerRows' = LedgerRows + 1
                => LET row == AllRows(Self', "verified_coordinates")[LedgerRows']
                   IN  /\ row.address_id = ret'.address_id
                       /\ row.lat = ret'.lat
                       /\ row.lon = ret'.lng
          /\ LedgerRows' = LedgerRows
                => /\ coordinates_buffer' = coordinates_buffer
                   /\ dataset'.verified_coordinates = dataset.verified_coordinates]_vars

\* C4: a coordinate exactly 1e-7 away in latitude from the persisted verified
\* coordinate of its address has just been appended to the ledger queue
AppendsIffAtLeastEpsilonWitness ==
    /\ ret.op = "insert_verified_coordinates"
    /\ ret.value = TRUE
    /\ coordinates_buffer # <<>>
    /\ LET existing_coords == get_verified_coordinates(Self, ret.address_id)
           row == coordinates_buffer[Len(coordinates_buffer)]
       IN  /\ existing_coords # None
           /\ Abs(existing_coords.lat - ret.lat) = Epsilon
           /\ existing_coords.lon = ret.lng
           /\ row.address_id = ret.address_id
           /\ row.lat = ret.lat
           /\ row.lon = ret.lng

\* C5: a resolution that returns an address id for which the ledger table
\* holds a row returns the current verified coordinate with is_verified true,
\* on every branch
LedgerWinsOnEveryBranch ==
    [][(/\ ret'.op \in ResolutionOps
        /\ ret'.value # None
        /\ get_verified_coordinates(Self, ret'.value.address_id) # None)
       => LET verified_coords ==
                  get_verified_coordinates(Self, ret'.value.address_id)
          IN  /\ ret'.value.is_verified
              /\ ret'.value.lat = verified_coords.lat
              /\ ret'.value.lng = verified_coords.lon]_vars

\* C6: after insert_verified_coordinates has appended a coordinate and returned
\* true, the next resolution that returns the same address id returns that
\* coordinate with is_verified true
FieldFixVisibleToNextResolution ==
    [][(/\ ret.op = "insert_verified_coordinates"
        /\ ret.value = TRUE
        /\ ret'.op \in ResolutionOps
        /\ ret'.value # None
        /\ ret'.value.address_id = ret.address_id)
       => /\ ret'.value.is_verified
          /\ ret'.value.lat = ret.lat
          /\ ret'.value.lng = ret.lng]_vars

\* C7: a flush_buffers whose load jobs all succeed writes, for each table, the
\* records of its queue, each once and in their order, after the rows the
\* table held, in one load job (none for an empty queue), and leaves every
\* queue empty
SuccessfulFlush ==
    [][(ret'.op = "flush_buffers" /\ ~ret'.raised)
       => /\ \A t \in Tables :
                /\ buffer_of(Self', t) = <<>>
                /\ Self'[t] = Self[t] \o buffer_of(Self, t)
                /\ (buffer_of(Self, t) # <<>>) <=> (t \in Rows(ret'.jobs))
          /\ Len(ret'.jobs) = Cardinality(Rows(ret'.jobs))]_vars

\* C7: a flush_buffers has just written the queues of three tables, one load
\* job each
SuccessfulFlushWitness ==
    /\ ret.op = "flush_buffers"
    /\ ~ret.raised
    /\ ret.jobs = <<"addresses", "orders", "address_inputs">>
    /\ \A t \in Tables : buffer_of(Self, t) = <<>>
    /\ \A t \in Rows(ret.jobs) : Self[t] # <<>>

\* C8: when the load job of a queue fails, in flush_buffers or in the flush an
\* append triggers, the error is raised, the table is left as it was and the
\* queue holds the records it held when the load started, in their order
\* (the queue before a flush_buffers; the queue before the append followed by
\* what was appended).  When the next operation starts a load job on that
\* queue and the job succeeds, the records are all written, in their order
FailedFlushKeepsQueue ==
    [][\A t \in Tables :
         /\ t \in ret'.failed
              => /\ ret'.raised
                 /\ Self'[t] = Self[t]
                 /\ IF ret'.op = "flush_buffers"
                    THEN buffer_of(Self', t) = buffer_of(Self, t)
                    ELSE /\ IsPrefix(buffer_of(Self, t), buffer_of(Self', t))
                         /\ Len(buffer_of(Self', t)) > Len(buffer_of(Self, t))
                         /\ Len(buffer_of(Self', t)) >= buffer_size
         /\ (t \in ret.failed /\ t \in Rows(ret'.jobs) /\ t \notin ret'.failed)
              => /\ IsPrefix(Self[t] \o buffer_of(Self, t), Self'[t])
                 /\ ret'.op = "flush_buffers"
                      => /\ Self'[t] = Self[t] \o buffer_of(Self, t)
                         /\ buffer_of(Self', t) = <<>>]_vars

\* C8: a flush_buffers has just failed on the ledger queue, which is still
\* there
FailedFlushKeepsQueueWitness ==
    /\ ret.op = "flush_buffers"
    /\ ret.raised
    /\ ret.failed = {"verified_coordinates"}
    /\ coordinates_buffer # <<>>

\* C9: for each table, an operation that appends to its queue starts a load
\* job on it if and only if the appends bring the queue to buffer_size
\* records or more; when such an operation returns normally the queue is
\* shorter than buffer_size; and it starts no load job on a table it does
\* not append to
ThresholdAutoFlush ==
    [][ret'.op \in AppendOps
       => \A t \in Tables :
             LET appended == Len(AllRows(Self', t)) - Len(AllRows(Self, t))
             IN  /\ (t \in Rows(ret'.jobs))
                       <=> (/\ appended > 0
                            /\ Len(buffer_of(Self, t)) + appended >= buffer_size)
                 /\ (appended > 0 /\ ~ret'.raised)
                       => Len(buffer_of(Self', t)) < buffer_size]_vars

\* C9: a single task has just brought the orders queue to buffer_size and the
\* queue was written inside the call
ThresholdAutoFlushWitness ==
    /\ ret.op = "process_single_task"
    /\ ~ret.raised
    /\ "orders" \in Rows(ret.jobs)
    /\ order_buffer = <<>>
    /\ Len(dataset.orders) >= buffer_size

\* C10: every flush_buffers starts a load job on each queue that is not
\* empty, whatever becomes of the load jobs of the other queues
FlushAttemptsEveryQueue ==
    [][ret'.op = "flush_buffers"
       => \A t \in Tables :
             buffer_of(Self, t) # <<>> => t \in Rows(ret'.jobs)]_vars

\* the state of a queue between two operations
QueueState(buffer) == IF buffer = <<>> THEN "EMPTY" ELSE "ACCUMULATING"

QueuesEmpty ==
    /\ address_buffer = <<>> /\ order_buffer = <<>>
    /\ coordinates_buffer = <<>> /\ address_inputs_buffer = <<>>

\* C12: in every state, for every raw address that address_inputs links to no
\* addresses row, a resolution during which validate_address raises fails,
\* on the single-task path (whatever the dispatch API would have answered)
\* and on the CSV path, after one geocoder call, and starts no load job and
\* leaves the four queues and the four tables as they were
GeocoderFailureLeavesQueues ==
    \A input_address \in RawPool :
        get_address_by_input(Self, input_address) = {}
        => \A ok \in Outcomes(AtThreshold(Self)) :
              LET failure == [c |-> [Start(Self) EXCEPT !.raised = TRUE],
                              value |-> None, geocoder_calls |-> 1]
              IN  /\ csv_row(Start(Self), input_address, GeocoderError, ok)
                        = {failure}
                  /\ \A dispatch \in {"ok", "no_task_id", "error"},
                        date \in TaskDates :
                        process_single_task(Start(Self), input_address,
                                            GeocoderError, dispatch, date, ok)
                            = {failure}

\* C12: a row of a CSV file has just failed at the geocoder (it made a
\* geocoder call, and a resolution that gets a validation result appends to
\* a queue or fails in a load job) while records were queued, and the queues
\* are what they were
GeocoderFailureLeavesQueuesWitness ==
    /\ ret.op = "csv_row"
    /\ ret.raised
    /\ ret.geocoder_calls = 1
    /\ ret.jobs = <<>>
    /\ Len(address_buffer) = 1
    /\ Len(address_inputs_buffer) = 1
    /\ Len(csv.address_info) = 1

\* C13: in every state, for every raw address that address_inputs links to no
\* addresses row, process_address called without a validation result raises
\* and starts no load job and leaves the four queues and the four tables as
\* they were
ValidationRequired ==
    \A input_address \in RawPool :
        get_address_by_input(Self, input_address) = {}
        => \A ok \in Outcomes(AtThreshold(Self)) :
              process_address(Start(Self), input_address, None, ok)
                  = {[c |-> [Start(Self) EXCEPT !.raised = TRUE], value |-> None]}

\* C13: process_address has just raised without a load job while no queue
\* held a record (with a validation result it would have appended one)
ValidationRequiredWitness ==
    /\ ret.op = "process_address"
    /\ ret.raised
    /\ ret.jobs = <<>>
    /\ QueuesEmpty
    /\ get_address_by_input(Self, ret.input_address) = {}

\* the persisted addresses rows that stand for formatted address f: their
\* formatted_address is f with its whitespace collapsed, in upper case
CanonicalRows(f) ==
    {a \in Rows(dataset.addresses) : a.formatted_address = Upper(CleanText(f))}

\* C14: in every state, for a raw address that address_inputs links to no
\* addresses row and a validation result whose formatted address already has
\* a persisted addresses row, process_address returns the address_id of that
\* row, appends no addresses record and appends exactly one address_inputs
\* record, which links the raw address to that address_id
CanonicalDedup ==
    \A input_address \in RawPool, validation_result \in ValidationPool :
        (/\ get_address_by_input(Self, input_address) = {}
         /\ CanonicalRows(validation_result.formattedAddress) # {})
        => \A r \in process_address(Start(Self), input_address,
                                    validation_result, AllLoad) :
              /\ ~r.c.raised
              /\ \E a \in CanonicalRows(validation_result.formattedAddress) :
                     r.value.address_id = a.address_id
              /\ AllRows(r.c.db, "addresses") = AllRows(Self, "addresses")
              /\ AllRows(r.c.db, "address_inputs")
                   = Append(AllRows(Self, "address_inputs"),
                            [input_address |-> input_address,
                             address_id |-> r.value.address_id])

\* C15: in every state, for every formatted address f the geocoder can
\* answer, get_address(f) finds a row whenever the addresses table holds a
\* row whose formatted_address is f with its whitespace collapsed, in upper
\* case
LookupKeyIsStoredKey ==
    \A validation_result \in ValidationPool :
        CanonicalRows(validation_result.formattedAddress) # {}
        => get_address(Self, validation_result.formattedAddress) # {}

\* C16: no two addresses records, queued or written, have the same address_id
CreatedOnce ==
    LET rows == AllRows(Self, "addresses")
    IN  \A i, j \in DOMAIN rows :
            rows[i].address_id = rows[j].address_id => i = j

\* C18: no two address_inputs records, queued or written, have the same raw
\* input and the same address_id
LinkedOnce ==
    LET rows == AllRows(Self, "address_inputs")
    IN  \A i, j \in DOMAIN rows :
            (/\ rows[i].input_address = rows[j].input_address
             /\ rows[i].address_id = rows[j].address_id) => i = j

CleaningIdempotent ==
    [][/\ ret'.address = <<>> => ret'.value = <<>>
       /\ ret.op # "input" => ret'.value = ret.value]_vars

\* C20: clean_address has been applied a second time, to the text a cleaning
\* returned
CleaningIdempotentWitness ==
    /\ ret.op = "clean_address"
    /\ ret.applied = 2
    /\ ret.address = <<"a", " ", "b">>
    /\ ret.value = <<"a", " ", "b">>

\* C21: on every call of process_single_task, whatever the geocoder answers
\* for its address, a send_tasks that raises makes the call fail with the
\* orders table and the orders queue as they were; and a device group of a
\* CSV file whose send_tasks raises, or answers without status 200 and
\* taskIds, appends no orders record and starts no load job
DispatchFailureQueuesNoOrder ==
    [][/\ ret'.op = "process_single_task"
          => \A geocode \in ValidationPool \cup {GeocoderError},
                date \in TaskDates,
                ok \in Outcomes(AtThreshold(Self) \ {"verified_coordinates"}) :
                \A r \in process_single_task(Start(Self), ret'.input_address,
                                             geocode, "error", date, ok) :
                   /\ r.c.raised
                   /\ r.c.db.orders = dataset.orders
                   /\ r.c.db.order_buffer = order_buffer
                   /\ "orders" \notin Rows(r.c.jobs)
       /\ (ret'.op = "csv_send" /\ ret'.dispatch # "ok")
          => /\ dataset' = dataset
             /\ order_buffer' = order_buffer
             /\ ret'.jobs = <<>>]_vars

\* C21: the send_tasks of a single task whose address was known has raised
\* (no geocoder call, no load job) while an order was queued, and the
\* orders queue holds that one order still
DispatchFailureQueuesNoOrderWitness ==
    /\ ret.op = "process_single_task"
    /\ ret.raised
    /\ ret.geocoder_calls = 0
    /\ ret.jobs = <<>>
    /\ Len(order_buffer) = 1
    /\ dataset.orders = <<>>

\* C22: after every row of a CSV device group the two lists have the same
\* length and entry k of each is of the same row; a row whose geocoding
\* fails is the only thing skipped: the four queues, the tables and the two
\* lists are what the earlier rows left, no load job is started, and the
\* loop stands at the next row of the group
PerRowIsolation ==
    [][ret'.op = "csv_row"
       => /\ Len(csv'.processed_tasks) = Len(csv'.address_info)
          /\ \A k \in DOMAIN csv'.address_info :
                csv'.processed_tasks[k].local_id = csv'.address_info[k].local_id
          /\ csv'.pc = "rows"
          /\ csv'.row = csv.row + 1
          /\ ret'.geocoder_failed
                => /\ Self' = Self
                   /\ csv'.processed_tasks = csv.processed_tasks
                   /\ csv'.address_info = csv.address_info
                   /\ ret'.raised
                   /\ ret'.jobs = <<>>]_vars

\* C22: the second row of a group has been resolved, with a geocoder call,
\* after the first row failed at the geocoder: the lists hold the second row
\* only, and the queues only what the second row appended
PerRowIsolationWitness ==
    /\ ret.op = "csv_row"
    /\ ~ret.raised
    /\ ret.geocoder_calls = 1
    /\ csv.row = 2
    /\ Len(csv.address_info) = 1
    /\ csv.address_info[1].local_id = 2
    /\ csv.processed_tasks[1].local_id = 2
    /\ Len(address_buffer) = 1
    /\ Len(address_inputs_buffer) = 1
    /\ dataset.addresses = <<>>
    /\ dataset.address_inputs = <<>>

\* the names of the calls made so far by the running resolution, in order
CallsMade == [i \in DOMAIN ret.log |-> ret.log[i].call]

\* C23: at every point of a resolution, validate_address has been called
\* only after a get_address_by_input for the raw address that found
\* nothing, get_address only after validate_address answered, and
\* insert_address only after a get_address that found nothing; and the
\* calls made so far are the leading part of the one order lookup, geocoder,
\* lookup, canonical lookup, (insert of the address,) link
StrictLookupOrder ==
    LET Before(i, call, found) ==
            \E j \in 1..(i - 1) : ret.log[j] = [call |-> call, found |-> found]
    IN  /\ \A i \in DOMAIN ret.log :
              /\ ret.log[i].call = "validate_address"
                    => Before(i, "get_address_by_input", FALSE)
              /\ ret.log[i].call = "get_address"
                    => Before(i, "validate_address", TRUE)
              /\ ret.log[i].call = "insert_address"
                    => Before(i, "get_address", FALSE)
        /\ \/ IsPrefix(CallsMade,
                       <<"get_address_by_input", "validate_address",
                         "get_address_by_input", "get_address",
                         "insert_address", "insert_address_input">>)
           \/ IsPrefix(CallsMade,
                       <<"get_address_by_input", "validate_address",
                         "get_address_by_input", "get_address",
                         "insert_address_input">>)

\* C23: a resolution has gone all the way to a new addresses record and its
\* link while another address was already written
StrictLookupOrderWitness ==
    /\ ret.pc = "done"
    /\ ~ret.raised
    /\ Len(ret.log) = 6
    /\ ret.log[5].call = "insert_address"
    /\ Len(dataset.addresses) = 1

\* C24: in the life of one client, no step removes a record from the rows of
\* a table, queued and written, or changes their order: every record that
\* was appended stays queued or written; and when flush_buffers is called
\* again until all its load jobs succeed, whatever is queued is eventually
\* written and the queues are empty
AtLeastOnceDelivery ==
    /\ [][\A t \in Tables : IsPrefix(AllRows(Self, t), AllRows(Self', t))]_vars
    /\ (~QueuesEmpty) ~> QueuesEmpty

\* C24: a flush_buffers whose load jobs all succeeded has written records
\* that an earlier flush_buffers had failed to write
AtLeastOnceDeliveryWitness ==
    /\ ret.op = "flush_buffers"
    /\ ~ret.raised
    /\ QueuesEmpty
    /\ Len(dataset.orders) = 2
    /\ Len(dataset.addresses) = 1
    /\ Len(dataset.verified_coordinates) = 1

\* the addresses rows of db with the id address_id, queued and written
AddressRowsOf(db, address_id) ==
    {a \in Rows(db.addresses) \cup Rows(db.address_buffer) :
        a.address_id = address_id}

\* C25: a resolution that returns an address id returns as original_coords the
\* google_lat/google_lng of the addresses rows of that id, queued or written
\* (there is one at least); and when the ledger table holds no row for that
\* id it returns these same coordinates as lat and lng with is_verified false
FallbackWhenUnverified ==
    [][(/\ ret'.op \in ResolutionOps
        /\ ret'.value # None)
       => LET value == ret'.value
              rows == AddressRowsOf(Self', value.address_id)
          IN  /\ rows # {}
              /\ \A a \in rows :
                    /\ value.original_coords.lat = a.google_lat
                    /\ value.original_coords.lng = a.google_lng
              /\ get_verified_coordinates(Self, value.address_id) = None
                   => /\ ~value.is_verified
                      /\ value.lat = value.original_coords.lat
                      /\ value.lng = value.original_coords.lng]_vars

\* C25: a resolution has just found the input address linked to an address
\* that has no ledger row, queued or written, and returned its Google
\* coordinates unverified
FallbackWhenUnverifiedWitness ==
    /\ ret.op \in ResolutionOps
    /\ ret.value # None
    /\ ret.value.branch = "input"
    /\ ~ret.value.is_verified
    /\ \A r \in Rows(dataset.verified_coordinates) \cup Rows(coordinates_buffer) :
          r.address_id # ret.value.address_id
    /\ \E a \in Rows(dataset.addresses) :
          /\ a.address_id = ret.value.address_id
          /\ ret.value.lat = a.google_lat
          /\ ret.value.lng = a.google_lng

\* the (address_id, lat, lng, is_verified) of the outcomes S of a resolution;
\* None for an outcome that raised
Answers(S) ==
    {IF r.value = None THEN None
     ELSE <<r.value.address_id, r.value.lat, r.value.lng, r.value.is_verified>> :
        r \in S}

\* C26: in every state, for every raw address and every answer of the
\* geocoder (used only where the path asks for it), process_single_task's
\* resolution, the resolution of a CSV row and process_address have the same
\* possible results (address_id, lat, lng, is_verified)
SinglePrecedenceAuthority ==
    \A input_address \in RawPool, validation_result \in ValidationPool,
       ok \in Outcomes(AtThreshold(Self) \cap {"addresses", "address_inputs"}) :
        LET direct == Answers(process_address(Start(Self), input_address,
                                              validation_result, ok))
        IN  /\ Answers(resolve_single_task(Start(Self), input_address,
                                           validation_result, ok)) = direct
            /\ Answers(csv_row(Start(Self), input_address,
                               validation_result, ok)) = direct

\* C26: process_single_task has just returned the verified coordinate of an
\* address whose Google coordinates differ from it, and process_address and a
\* CSV row would return the same for that raw address
SinglePrecedenceAuthorityWitness ==
    /\ ret.op = "process_single_task"
    /\ ret.value # None
    /\ ret.value.is_verified
    /\ ret.value.lat # ret.value.original_coords.lat
    /\ LET answer == <<ret.value.address_id, ret.value.lat, ret.value.lng, TRUE>>
       IN  /\ answer \in Answers(process_address(Start(Self), ret.input_address,
                                                 None, AllLoad))
           /\ answer \in Answers(csv_row(Start(Self), ret.input_address,
                                         GeocoderError, AllLoad))

\* C27: a call of insert_verified_coordinates returns true exactly when it
\* appended a record to the verified-coordinates queue (the rows of the
\* ledger, written and queued, have grown), and a call that does not return
\* true leaves the queue as it was
ReturnsTrueIffAppended ==
    [][ret'.op = "insert_verified_coordinates"
       => LET returned_true == ~ret'.raised /\ ret'.value
              appended == AllRows(Self', "verified_coordinates")
                              # AllRows(Self, "verified_coordinates")
          IN  /\ returned_true <=> appended
              /\ ~returned_true => coordinates_buffer' = coordinates_buffer]_vars

\* the address ids of the validation results and of the ledger rows
KnownAddressIds ==
    {prepare_address_data(v).address_id : v \in ValidationPool}
        \cup {r.address_id : r \in Rows(dataset.verified_coordinates)}

\* the places in the ledger table of the rows of address_id, in the order in
\* which they were recorded
LedgerPlaces(address_id) ==
    {i \in DOMAIN dataset.verified_coordinates :
        dataset.verified_coordinates[i].address_id = address_id}

\* C28: whenever every recorded coordinate has been written (the
\* verified-coordinates queue is empty), get_verified_coordinates returns,
\* for every address id, the lat and lon of the row recorded last for that
\* id, and nothing when no row was recorded for it
CurrentIsMostRecent ==
    coordinates_buffer = <<>>
    => \A address_id \in KnownAddressIds :
          LET current == get_verified_coordinates(Self, address_id)
              places == LedgerPlaces(address_id)
          IN  IF places = {} THEN current = None
              ELSE LET last == dataset.verified_coordinates[Max(places)]
                   IN  /\ current # None
                       /\ current.lat = last.lat
                       /\ current.lon = last.lon

\* C28: a flush has just written the queues; the ledger table holds two rows
\* of one address with different coordinates, and the current verified
\* coordinate of that address is the one recorded second
CurrentIsMostRecentWitness ==
    /\ ret.op = "flush_buffers"
    /\ ~ret.raised
    /\ coordinates_buffer = <<>>
    /\ Len(dataset.verified_coordinates) = 2
    /\ LET first == dataset.verified_coordinates[1]
           second == dataset.verified_coordinates[2]
       IN  /\ first.address_id = second.address_id
           /\ first.lat # second.lat
           /\ get_verified_coordinates(Self, first.address_id).lat = second.lat

\* C29: in every state, each triple get_unverified_addresses returns is the
\* task_id and address_id of a written order with the formatted_address of a
\* written addresses row of that address_id, and the ledger table holds no
\* row of that address_id; and each written order whose address_id has a
\* written addresses row and no written ledger row gives a triple of the
\* result, one for each formatted_address of these rows
UnverifiedAddressesExact ==
    LET result == get_unverified_addresses(Self)
    IN  /\ \A t \in result :
              /\ DOMAIN t = {"task_id", "address_id", "formatted_address"}
              /\ \E o \in Rows(dataset.orders) :
                    o.task_id = t.task_id /\ o.address_id = t.address_id
              /\ \E a \in Rows(dataset.addresses) :
                    /\ a.address_id = t.address_id
                    /\ a.formatted_address = t.formatted_address
              /\ LedgerPlaces(t.address_id) = {}
        /\ \A o \in Rows(dataset.orders), a \in Rows(dataset.addresses) :
              (o.address_id = a.address_id /\ LedgerPlaces(o.address_id) = {})
              => [task_id |-> o.task_id, address_id |-> o.address_id,
                  formatted_address |-> a.formatted_address] \in result

\* C29: the tables hold orders of two addresses, one with a ledger row and
\* one without; get_unverified_addresses returns the orders of the second
\* address only
UnverifiedAddressesExactWitness ==
    /\ get_unverified_addresses(Self) # {}
    /\ \E o \in Rows(dataset.orders) :
          /\ LedgerPlaces(o.address_id) # {}
          /\ \E a \in Rows(dataset.addresses) : a.address_id = o.address_id
          /\ \A t \in get_unverified_addresses(Self) :
                t.address_id # o.address_id

RECURSIVE Flatten(_)
\* the chunks one after the other
Flatten(chunks) ==
    IF chunks = <<>> THEN <<>> ELSE Head(chunks) \o Flatten(Tail(chunks))

\* C30: the chunks _chunk_tasks made of a task list have between 1 and
\* chunk_size tasks each, all but the last have chunk_size tasks, and one
\* after the other they are the task list (no chunk for the empty list);
\* and when the loop over the chunks is over, a fetch was made for every
\* chunk, whatever the fetches before it answered, and the tasks of every
\* chunk whose fetch answered were handled
ChunkingExact ==
    ret.op # "input"
    => /\ \A k \in DOMAIN ret.chunks :
             /\ Len(ret.chunks[k]) >= 1
             /\ Len(ret.chunks[k]) <= chunk_size
             /\ k < Len(ret.chunks) => Len(ret.chunks[k]) = chunk_size
       /\ Flatten(ret.chunks) = ret.tasks
       /\ ret.tasks = <<>> => ret.chunks = <<>>
       /\ ret.op = "done"
            => /\ Len(ret.fetched) = Len(ret.chunks)
               /\ \A k \in DOMAIN ret.chunks :
                     ret.fetched[k] = "ok" => ret.handled[k] = ret.chunks[k]

\* C30: a pass over five tasks is over: three chunks, the last of one task;
\* the fetch of the first chunk raised and the third chunk was handled
ChunkingExactWitness ==
    /\ ret.op = "done"
    /\ Len(ret.tasks) = 5
    /\ Len(ret.chunks) = 3
    /\ Len(ret.chunks[3]) = 1
    /\ ret.fetched[1] = "error"
    /\ ret.fetched[3] = "ok"
    /\ ret.handled[3] = ret.chunks[3]

ReferentialIntegrity ==
    \A r \in Rows(dataset.address_inputs) \cup Rows(dataset.orders) :
        \E a \in Rows(dataset.addresses) : a.address_id = r.address_id

\* C33: in every state, no two address_inputs records, queued in a client or
\* written, link the same raw address to different address_ids, and
\* get_address_by_input has at most one answer for each raw address
OneAddressPerInput ==
    LET address_inputs == dataset.address_inputs \o address_inputs_buffer
                              \o peer.address_inputs_buffer
    IN  /\ \A x \in Rows(address_inputs), y \in Rows(address_inputs) :
               x.input_address = y.input_address => x.address_id = y.address_id
        /\ \A input_address \in RawPool :
               Cardinality(get_address_by_input(Self, input_address)) <= 1

\* the address ids get_unverified_addresses returns for the tables of db
UnverifiedIds(db) == {t.address_id : t \in get_unverified_addresses(db)}

\* the address ids with a written order and a written addresses row
OrderedIds(db) ==
    {o.address_id : o \in Rows(db.orders)}
        \cap {a.address_id : a \in Rows(db.addresses)}

\* C34: a resolution that comes next after a resolution which returned an
\* address id with is_verified true, and returns the same address id, returns
\* is_verified true as well; and an address with written orders that
\* get_unverified_addresses does not return is not returned by it after any
\* step
VerificationMonotonic ==
    [][/\ (/\ ret.op \in ResolutionOps
            /\ ret.value # None
            /\ ret.value.is_verified
            /\ ret'.op \in ResolutionOps
            /\ ret'.value # None
            /\ ret'.value.address_id = ret.value.address_id)
           => ret'.value.is_verified
       /\ \A address_id \in OrderedIds(Self) \ UnverifiedIds(Self) :
             address_id \notin UnverifiedIds(Self')]_vars

\* C35: in every state, for every raw address that address_inputs links to a
\* written addresses row, process_address, the resolution of
\* process_single_task and the resolution of a CSV row end without an error
\* and leave the four queues and the four tables as they were and start no
\* load job, whatever the load jobs would have answered
CacheHitReadOnly ==
    \A input_address \in RawPool :
        get_address_by_input(Self, input_address) # {}
        => \A ok \in Outcomes(Tables),
              geocode \in ValidationPool \cup {GeocoderError} :
              /\ \A r \in process_address(
                             Start(Self), input_address,
                             IF geocode = GeocoderError THEN None ELSE geocode,
                             ok) :
                    r.c = Start(Self) /\ r.value # None
              /\ \A r \in resolve_single_task(Start(Self), input_address,
                                               geocode, ok)
                          \cup csv_row(Start(Self), input_address, geocode, ok) :
                    r.c = Start(Self) /\ r.value # None

\* C35: process_address has just answered from address_inputs while the
\* address_inputs queue was one record short of the threshold: the queue is
\* as long as before and no load job was started
CacheHitReadOnlyWitness ==
    /\ ret.op = "process_address"
    /\ ~ret.raised
    /\ ret.value.branch = "input"
    /\ ret.jobs = <<>>
    /\ Len(address_inputs_buffer) = buffer_size - 1

\* _batch_load_addresses, _batch_load_orders, _batch_load_coordinates or
\* _batch_load_address_inputs, by the name of the table
batch_load(t, c, ok) ==
    CASE t = "addresses" -> batch_load_addresses(c, ok)
      [] t = "orders" -> batch_load_orders(c, ok)
      [] t = "verified_coordinates" -> batch_load_coordinates(c, ok)
      [] t = "address_inputs" -> batch_load_address_inputs(c, ok)

\* the queue and the rows of every table but t are the same in db1 and db2
OthersSame(t, db1, db2) ==
    \A u \in Tables \ {t} :
        buffer_of(db1, u) = buffer_of(db2, u) /\ db1[u] = db2[u]

\* C36: an append to the queue of one table, whether or not it starts a load
\* job and whether or not the job succeeds, leaves the queues and the rows of
\* the three other tables as they were and starts a load job on no other
\* table; and in every state the load of one table's queue, successful or
\* failed, leaves the queues and the rows of the three other tables as they
\* were
QueuesIndependent ==
    /\ [][ret'.op \in {"insert_address", "insert_address_input", "insert_task",
                       "insert_verified_coordinates"}
          => /\ OthersSame(ret'.table, Self, Self')
             /\ \A k \in DOMAIN ret'.jobs : ret'.jobs[k] = ret'.table]_vars
    /\ [](\A t \in Tables, ok \in Outcomes(Tables) :
             OthersSame(t, Self, batch_load(t, Start(Self), ok).db))

\* C36: insert_address has just reached the threshold and its load job has
\* written the addresses queue, while the three other queues hold a record
\* each
QueuesIndependentWitness ==
    /\ ret.op = "insert_address"
    /\ ret.jobs = <<"addresses">>
    /\ ~ret.raised
    /\ address_buffer = <<>>
    /\ Len(dataset.addresses) = buffer_size
    /\ Len(order_buffer) = 1
    /\ Len(coordinates_buffer) = 1
    /\ Len(address_inputs_buffer) = 1

\* C37: a call that appends a record to the queue of a table keeps the rows
\* of the table, written and queued, in their order with the record last.
\* When the queue then holds buffer_size records or more, however many a
\* failed load left in it, the call starts one load job on that table: when
\* the job fails the call raises, nothing is written and the queue keeps
\* every record with the new one, and when it succeeds the whole queue is
\* written after the rows of the table, in the order of the appends, and
\* the queue is empty.  Below the threshold no load job is started
RetryAtThreshold ==
    [][(/\ ret'.op \in {"insert_address", "insert_address_input",
                         "insert_task", "insert_verified_coordinates"}
        /\ Len(AllRows(Self', ret'.table)) = Len(AllRows(Self, ret'.table)) + 1)
       => LET t == ret'.table
              queue == buffer_of(Self, t)
              record == AllRows(Self', t)[Len(AllRows(Self', t))]
          IN  /\ AllRows(Self', t) = Append(AllRows(Self, t), record)
              /\ IF Len(queue) + 1 >= buffer_size
                 THEN /\ ret'.jobs = <<t>>
                      /\ IF ret'.raised
                         THEN /\ Self'[t] = Self[t]
                              /\ buffer_of(Self', t) = Append(queue, record)
                         ELSE /\ Self'[t] = Self[t] \o Append(queue, record)
                              /\ buffer_of(Self', t) = <<>>
                 ELSE /\ ret'.jobs = <<>>
                      /\ ~ret'.raised
                      /\ Self'[t] = Self[t]
                      /\ buffer_of(Self', t) = Append(queue, record)]_vars

\* C37: insert_address_input has just raised for the second time: two load
\* jobs in a row have failed, nothing is written, and the queue holds one
\* record more than buffer_size
RetryAtThresholdWitness ==
    /\ ret.op = "insert_address_input"
    /\ ret.raised
    /\ ret.jobs = <<"address_inputs">>
    /\ dataset.address_inputs = <<>>
    /\ Len(address_inputs_buffer) = buffer_size + 1

\* C38: every orders record a step appends carries a task id that is not
\* empty (0 stands for the empty string), and the record that
\* process_single_task appends carries the address id its resolution
\* returned
OrdersCarryTaskId ==
    [][\A k \in (Len(AllRows(Self, "orders")) + 1)
                    ..Len(AllRows(Self', "orders")) :
          LET order == AllRows(Self', "orders")[k]
          IN  /\ order.task_id # 0
              /\ (ret'.op = "process_single_task" /\ ret'.value # None)
                    => order.address_id = ret'.value.address_id]_vars

====
